---- MODULE Spec2Model ----
(***************************************************************************)
(* Model of the SageMaker MLOps pipeline's decision logic:                 *)
(*   - lambda/model_evaluator/handler.py: threshold evaluation             *)
(*     (perform_evaluation), approval workflow (handle_model_approval,     *)
(*     upload_approved_model) and the evaluator's lambda_handler;          *)
(*   - lambda/deployment_orchestrator/handler.py: the endpoint             *)
(*     create / update / health-check / rollback flow of lambda_handler.   *)
(*                                                                         *)
(* Python dicts are modelled as ordered dictionaries: a sequence of        *)
(* <<key, value>> pairs with distinct keys (insertion order is iteration   *)
(* order).  Optional values (None) are modelled as sequences of length 0   *)
(* or 1.  Metric values are numbers compared with >=; the model draws them *)
(* from 0..MaxValue.  Strings that the code builds or inspects (S3 keys)   *)
(* are sequences of tokens.                                                *)
(***************************************************************************)
EXTENDS Integers, Sequences, FiniteSets, TLC

VARIABLES
    \* ---- model_evaluator ----
    metrics,        \* the metric mapping read from metrics.json
    thresholds,     \* the threshold mapping (ordered dict)
    raised,         \* a second metric mapping, same keys, pointwise >= metrics
    report,         \* evaluation_result of lambda_handler / perform_evaluation
    raisedReport,   \* perform_evaluation(raised, thresholds)
    decision,       \* approval_result of lambda_handler
    copyCalls,      \* s3_client.copy_object calls issued, in order
    enotes,         \* sns_client.publish calls issued by the evaluator (subjects)
    eresponse,      \* the evaluator lambda_handler's return value
    epc,            \* position of the evaluator's lambda_handler
    eevent,         \* the evaluator's inbound event
    archive,        \* what the object at the job's model artifact URI is
    fetches,        \* s3_client.download_file calls issued by the evaluator
    \* ---- both handlers ----
    snsTopic,       \* SNS_TOPIC_ARN is configured
    pubFailed,      \* history: a publish call of this invocation raised
    \* ---- deployment_orchestrator ----
    dpc,            \* position of the deployment lambda_handler
    envBucket,      \* whether BUCKET_NAME is set in the environment
    event,          \* the inbound event
    artifact,       \* what the artifact at the key is
    epStatus,       \* control plane: status of the endpoint ("Absent" if none)
    epConfig,       \* control plane: config the endpoint references (Option)
    calls,          \* SageMaker calls issued by this invocation, in order
    describeResult, \* outcome of the step-4 describe_endpoint call
    model_name,     \* Option: name derived for the model resource
    previous_config_name, \* Option: config captured for rollback
    clock,          \* wall clock, seconds
    start_time,     \* _verify_endpoint_health's start_time
    healthy,        \* Option: result of _verify_endpoint_health
    polls,          \* history: the polls of _verify_endpoint_health, in order
    dnotes,         \* sns.publish calls issued by the deployer (subjects)
    dresponse,      \* the deployment lambda_handler's return value
    \* ---- training_orchestrator ----
    tpc,            \* position of the training lambda_handler
    tevent,         \* the training handler's inbound event
    tcalls,         \* SageMaker calls issued by the training handler
    tresponse,      \* the training lambda_handler's return value
    tjob,           \* what the training job leaves: metrics, thresholds, archive
    tstatus,        \* history: the statuses describe_training_job returned
    treport,        \* evaluation_result of the training lambda_handler
    tdecision,      \* approval_result of the training lambda_handler
    tcopies,        \* s3_client.copy_object calls of the training handler
    tnotes,         \* sns.publish calls issued by the training handler (subjects)
    \* ---- two reconciler invocations on one endpoint ----
    rkind,          \* which handler the invocations run
    rpc,            \* position of each invocation
    rseen,          \* what each invocation's describe_endpoint returned
    rcalls,         \* create/update calls issued, with the status they met
    rstatus,        \* control plane: status of the shared endpoint
    \* ---- trigger-new-file: invocations, and the account they act on ----
    gpc,            \* position of each invocation
    gstamp,         \* Option: int(time.time()) of each invocation
    gseen,          \* what each invocation's describe_endpoint returned
    gtodo,          \* the listed names each invocation's cleanup loop has left
    glog,           \* SageMaker calls each invocation issued, with their outcome
    gresponse,      \* each invocation's return value
    gconfigs,       \* control plane: names of the endpoint configs
    gmodels,        \* control plane: names of the models
    gstatus,        \* control plane: status of the endpoint ("Absent" if none)
    gconfig,        \* control plane: config the endpoint references (Option)
    gfaults,        \* calls that failed for a cause outside the account's state
    \* ---- functions applied to drawn inputs ----
    fin,            \* the input
    fout            \* the result, once computed

evalVars == <<metrics, thresholds, raised, report, raisedReport, decision,
              copyCalls, enotes, eresponse, epc, eevent, archive, fetches>>
deployVars == <<dpc, event, envBucket, artifact, epStatus, epConfig, calls, describeResult,
                model_name, previous_config_name, clock, start_time, healthy, polls,
                dnotes, dresponse>>
trainVars == <<tpc, tevent, tcalls, tresponse, tjob, tstatus, treport, tdecision,
               tcopies, tnotes>>
raceVars == <<rkind, rpc, rseen, rcalls, rstatus>>
fnVars == <<fin, fout>>
trigVars == <<gpc, gstamp, gseen, gtodo, glog, gresponse, gconfigs, gmodels,
              gstatus, gconfig, gfaults>>
otherVars == <<trainVars, raceVars, fnVars, trigVars>>
vars == <<evalVars, snsTopic, pubFailed, deployVars, otherVars>>

----------------------------------------------------------------------------
(* Bounds of the model. *)

\* metric and threshold values range over 0..MaxValue
MaxValue == 2
\* timestamps datetime.now() can return range over 0..MaxStamp
MaxStamp == 1

Values == 0..MaxValue
Stamps == 0..MaxStamp
MetricNames == {"accuracy", "f1_score", "precision"}
JobName == "job1"

\* Python None / a present value
None == <<>>
Some(x) == <<x>>

----------------------------------------------------------------------------
(* Ordered dictionaries. *)

Keys(d) == {d[i][1] : i \in 1..Len(d)}
KeySeq(d) == [i \in 1..Len(d) |-> d[i][1]]
HasKey(d, k) == \E i \in 1..Len(d) : d[i][1] = k
IndexOf(d, k) == CHOOSE i \in 1..Len(d) : d[i][1] = k
Get(d, k) == d[IndexOf(d, k)][2]
\* d[k] = v : replaces in place when k is present, appends otherwise
DictSet(d, k, v) ==
    IF HasKey(d, k) THEN [d EXCEPT ![IndexOf(d, k)] = <<k, v>>]
    ELSE Append(d, <<k, v>>)

Injective(s) == \A i, j \in 1..Len(s) : s[i] = s[j] => i = j

\* all metric mappings over MetricNames
MetricSets == UNION {[S -> Values] : S \in SUBSET MetricNames}
\* all threshold mappings: every order of every subset of the names
KeyOrders ==
    {s \in UNION {[1..n -> MetricNames] : n \in 0..Cardinality(MetricNames)} :
        Injective(s)}
ThresholdSets ==
    UNION {{[i \in 1..Len(ks) |-> <<ks[i], vs[i]>>] : vs \in [1..Len(ks) -> Values]} :
             ks \in KeyOrders}

----------------------------------------------------------------------------
(* model_evaluator: perform_evaluation *)

\* results entry of a threshold whose metric is absent
MissingEntry(threshold_value) ==
    [status |-> "missing", value |-> None,
     threshold |-> threshold_value, passed |-> FALSE]

\* passed = metric_value >= threshold_value
MeetsThreshold_strict(metric_value, threshold_value) ==
    metric_value > threshold_value
MeetsThreshold_reversed(metric_value, threshold_value) ==
    metric_value <= threshold_value
MeetsThreshold(metric_value, threshold_value) ==
    metric_value >= threshold_value

\* results entry of a threshold whose metric is present
ComparedEntry(metric_value, threshold_value) ==
    LET passed == MeetsThreshold(metric_value, threshold_value) IN
    [status |-> IF passed THEN "pass" ELSE "fail", value |-> Some(metric_value),
     threshold |-> threshold_value, passed |-> passed]

\* the quotient a / b as a reduced fraction <<numerator, denominator>>
RECURSIVE Gcd(_, _)
Gcd(a, b) == IF b = 0 THEN a ELSE Gcd(b, a % b)
Quot(a, b) == <<a \div Gcd(a, b), b \div Gcd(a, b)>>
Zero == <<0, 1>>

\* number of results entries with passed = true
RECURSIVE CountPassed(_)
CountPassed(results) ==
    IF results = <<>> THEN 0
    ELSE (IF Head(results)[2].passed THEN 1 ELSE 0) + CountPassed(Tail(results))

\* number of results entries with the given status
RECURSIVE CountStatus(_, _)
CountStatus(results, status) ==
    IF results = <<>> THEN 0
    ELSE (IF Head(results)[2].status = status THEN 1 ELSE 0)
         + CountStatus(Tail(results), status)

\* variant: failed_checks counts the 'fail' entries only
Summary_failOnly(thresholds_, results) ==
    LET total_checks == Len(thresholds_)
        passed_checks == CountPassed(results)
    IN [total_checks |-> total_checks,
        passed_checks |-> passed_checks,
        failed_checks |-> CountStatus(results, "fail"),
        pass_rate |-> IF total_checks > 0 THEN Quot(passed_checks, total_checks)
                      ELSE Zero]
\* variant: the pass rate of no checks is 1
Summary_emptyIsFull(thresholds_, results) ==
    LET total_checks == Len(thresholds_)
        passed_checks == CountPassed(results)
    IN [total_checks |-> total_checks,
        passed_checks |-> passed_checks,
        failed_checks |-> total_checks - passed_checks,
        pass_rate |-> IF total_checks > 0 THEN Quot(passed_checks, total_checks)
                      ELSE <<1, 1>>]
Summary(thresholds_, results) ==
    LET total_checks == Len(thresholds_)
        passed_checks == CountPassed(results)
    IN [total_checks |-> total_checks,
        passed_checks |-> passed_checks,
        failed_checks |-> total_checks - passed_checks,
        pass_rate |-> IF total_checks > 0 THEN Quot(passed_checks, total_checks)
                      ELSE Zero]

\* variant: a threshold whose metric is absent is skipped
CheckThreshold_skipMissing(metrics_, metric_name, threshold_value, rep) ==
    IF metric_name \notin DOMAIN metrics_
    THEN rep
    ELSE LET entry == ComparedEntry(metrics_[metric_name], threshold_value) IN
         [rep EXCEPT !.results = DictSet(@, metric_name, entry),
                     !.passed = IF ~entry.passed THEN FALSE ELSE @]
\* one iteration of "for metric_name, threshold_value in thresholds.items()"
CheckThreshold(metrics_, metric_name, threshold_value, rep) ==
    IF metric_name \notin DOMAIN metrics_
    THEN [rep EXCEPT !.results = DictSet(@, metric_name, MissingEntry(threshold_value)),
                     !.passed = FALSE]
    ELSE LET entry == ComparedEntry(metrics_[metric_name], threshold_value) IN
         [rep EXCEPT !.results = DictSet(@, metric_name, entry),
                     !.passed = IF ~entry.passed THEN FALSE ELSE @]

RECURSIVE EvalLoop(_, _, _, _)
EvalLoop(metrics_, thresholds_, i, rep) ==
    IF i > Len(thresholds_) THEN rep
    ELSE EvalLoop(metrics_, thresholds_, i + 1,
                  CheckThreshold(metrics_, thresholds_[i][1], thresholds_[i][2], rep))

perform_evaluation(metrics_, thresholds_) ==
    LET rep == EvalLoop(metrics_, thresholds_, 1,
                        [passed |-> TRUE, results |-> <<>>])
    IN [passed |-> rep.passed, results |-> rep.results,
        summary |-> Summary(thresholds_, rep.results)]

----------------------------------------------------------------------------
(* metrics.json inside the model archive: json.dump, tarfile, json.load *)

\* a number as json.dump writes it, and as json.load reads it back
NumberLiteral(v) == ToString(v)
ParseNumber(lit) == CHOOSE v \in Values : NumberLiteral(v) = lit

\* json.dump(m): the members of the object, one <<key, literal>> each
RECURSIVE DumpPairs(_, _)
DumpPairs(m, keys) ==
    IF keys = {} THEN <<>>
    ELSE LET k == CHOOSE x \in keys : TRUE
         IN <<<<k, NumberLiteral(m[k])>>>> \o DumpPairs(m, keys \ {k})
JsonDump(m) == [valid |-> TRUE, pairs |-> DumpPairs(m, DOMAIN m)]
\* a file that is not JSON
NotJson == [valid |-> FALSE, pairs |-> <<>>]

\* json.load(f): [raised, value]; a repeated key keeps its last value
JsonLoad(text) ==
    IF ~text.valid THEN [raised |-> Some("JSONDecodeError"), value |-> None]
    ELSE LET ks == {text.pairs[i][1] : i \in 1..Len(text.pairs)}
             last(k) == CHOOSE i \in 1..Len(text.pairs) :
                          /\ text.pairs[i][1] = k
                          /\ \A j \in (i + 1)..Len(text.pairs) : text.pairs[j][1] # k
         IN [raised |-> None,
             value |-> Some([k \in ks |-> ParseNumber(text.pairs[last(k)][2])])]

\* what the object at the model artifact URI can be
ArchiveKinds ==
    {"with_metrics", "no_metrics", "nested_metrics", "bad_json", "not_gzip"}

ModelMember == [path |-> <<"pytorch_model.bin">>, text |-> NotJson]

\* the archive of each kind, its metrics.json (if any) written from m
Archive(kind, m) ==
    [gzip |-> kind # "not_gzip",
     members |->
       CASE kind = "with_metrics" ->
              <<ModelMember, [path |-> <<"metrics.json">>, text |-> JsonDump(m)]>>
         [] kind = "no_metrics" -> <<ModelMember>>
         [] kind = "nested_metrics" ->
              <<ModelMember,
                [path |-> <<"output", "/", "metrics.json">>, text |-> JsonDump(m)]>>
         [] kind = "bad_json" ->
              <<ModelMember, [path |-> <<"metrics.json">>, text |-> NotJson]>>
         [] kind = "not_gzip" -> <<>>]

MetricsNotFound == "metrics.json not found in model archive"

\* variant: an archive without metrics.json yields an empty metric set
extract_metrics_from_model_archive_lenient(ar) ==
    IF ~ar.gzip THEN [raised |-> Some("ReadError"), value |-> None]
    ELSE LET at_root == {i \in 1..Len(ar.members) :
                           ar.members[i].path = <<"metrics.json">>}
         IN IF at_root = {}
            THEN [raised |-> None, value |-> Some(<<>>)]
            ELSE JsonLoad(ar.members[CHOOSE i \in at_root :
                                       \A j \in at_root : j <= i].text)
\* variant: metrics.json is read as written but for its first entry
extract_metrics_from_model_archive_dropFirst(ar) ==
    IF ~ar.gzip THEN [raised |-> Some("ReadError"), value |-> None]
    ELSE LET at_root == {i \in 1..Len(ar.members) :
                           ar.members[i].path = <<"metrics.json">>}
         IN IF at_root = {}
            THEN [raised |-> Some(MetricsNotFound), value |-> None]
            ELSE LET text == ar.members[CHOOSE i \in at_root :
                                          \A j \in at_root : j <= i].text
                 IN JsonLoad([text EXCEPT !.pairs = IF @ = <<>> THEN @ ELSE Tail(@)])
\* [raised, value]: extract the archive, open metrics.json at its root
extract_metrics_from_model_archive(ar) ==
    IF ~ar.gzip THEN [raised |-> Some("ReadError"), value |-> None]
    ELSE LET at_root == {i \in 1..Len(ar.members) :
                           ar.members[i].path = <<"metrics.json">>}
         IN IF at_root = {}
            THEN \* os.path.exists(metrics_path) is false
                 [raised |-> Some(MetricsNotFound), value |-> None]
            ELSE \* of members with one path, extractall keeps the last
                 JsonLoad(ar.members[CHOOSE i \in at_root :
                                       \A j \in at_root : j <= i].text)

----------------------------------------------------------------------------
(* model_evaluator: evaluate_model *)

\* the report evaluate_model returns when anything in it raises
ErrorReport(e) ==
    [passed |-> FALSE, error |-> e, results |-> <<>>,
     summary |-> [total_checks |-> 0, passed_checks |-> 0,
                  failed_checks |-> 0, pass_rate |-> Zero]]

\* outcome = "ok": the archive was fetched and held metrics_; otherwise the
\* outcome is what the download or the extraction raised
evaluate_model(outcome, metrics_, thresholds_) ==
    IF outcome = "ok" THEN perform_evaluation(metrics_, thresholds_)
    ELSE ErrorReport(outcome)

----------------------------------------------------------------------------
(* model_evaluator: approval workflow *)

\* the training job's artifact, s3://bucket/models/raw/job1/model.tar.gz
ModelS3Path ==
    <<"s3://", "bucket", "/", "models", "/", "raw", "/", JobName, "/",
      "model", ".", "tar", ".", "gz">>

\* str.lstrip('/')
RECURSIVE LStripSlash(_)
LStripSlash(s) ==
    IF s # <<>> /\ Head(s) = "/" THEN LStripSlash(Tail(s)) ELSE s

\* urlparse(uri): netloc is what follows the scheme up to the first "/"
UrlParse(uri) ==
    [netloc |-> uri[2], path |-> SubSeq(uri, 3, Len(uri))]

\* errors copy_object can raise
StorageErrors == {"AccessDenied", "SlowDown"}
CopyOutcomes == {"ok"} \cup StorageErrors

\* variant: the job name follows 'models/approved' without a separating '/'
ApprovedKey_flat(training_job_name, timestamp) ==
    <<"models", "/", "approved", "-", training_job_name, "-",
      ToString(timestamp), "/", "model", ".", "tar", ".", "gz">>
\* approved_key = f"models/approved/{training_job_name}-{timestamp}/model.tar.gz"
ApprovedKey(training_job_name, timestamp) ==
    <<"models", "/", "approved", "/", training_job_name, "-",
      ToString(timestamp), "/", "model", ".", "tar", ".", "gz">>

\* the one copy_object call of upload_approved_model
CopyCall(model_s3_path, training_job_name, timestamp) ==
    LET parsed == UrlParse(model_s3_path)
        bucket == parsed.netloc
        original_key == LStripSlash(parsed.path)
    IN [CopySource |-> [Bucket |-> bucket, Key |-> original_key],
        Bucket |-> bucket,
        Key |-> ApprovedKey(training_job_name, timestamp)]

\* variant: a failed copy is tried once more
upload_approved_model_retry(model_s3_path, training_job_name, timestamp, copyOutcome) ==
    LET call == CopyCall(model_s3_path, training_job_name, timestamp)
        one == [request |-> call, outcome |-> copyOutcome]
    IN [calls |-> IF copyOutcome = "ok" THEN <<one>> ELSE <<one, one>>,
        raised |-> IF copyOutcome = "ok" THEN None ELSE Some(copyOutcome),
        value |-> <<"s3://", call.Bucket, "/">> \o call.Key]
\* returns [calls, raised, value]: the copy calls issued (each with its
\* outcome), the error raised (None if none) and the approved path returned
upload_approved_model(model_s3_path, training_job_name, timestamp, copyOutcome) ==
    LET call == CopyCall(model_s3_path, training_job_name, timestamp) IN
    [calls |-> <<[request |-> call, outcome |-> copyOutcome]>>,
     raised |-> IF copyOutcome = "ok" THEN None ELSE Some(copyOutcome),
     value |-> <<"s3://", call.Bucket, "/">> \o call.Key]

MsgApproved == "Model passed evaluation and was approved for deployment"
MsgUploadFailed == "Model passed evaluation but approval upload failed"
MsgEvalFailed == "Model failed evaluation and was not approved for deployment"

\* variant: only the entries with status 'fail' are listed
RECURSIVE FailedMetrics_failOnly(_)
FailedMetrics_failOnly(results) ==
    IF results = <<>> THEN <<>>
    ELSE (IF Head(results)[2].status = "fail" THEN <<Head(results)[1]>> ELSE <<>>)
         \o FailedMetrics_failOnly(Tail(results))
\* [metric for metric, result in results.items() if not result['passed']]
RECURSIVE FailedMetrics(_)
FailedMetrics(results) ==
    IF results = <<>> THEN <<>>
    ELSE (IF ~Head(results)[2].passed THEN <<Head(results)[1]>> ELSE <<>>)
         \o FailedMetrics(Tail(results))

\* variant: approved follows the report alone; a copy error is not caught
handle_model_approval_uncaught(model_s3_path, evaluation_result, training_job_name, timestamp, copyOutcome) ==
    IF evaluation_result.passed
    THEN LET up == upload_approved_model(model_s3_path, training_job_name,
                                         timestamp, copyOutcome)
         IN [calls |-> up.calls, raised |-> up.raised,
             decision |-> [approved |-> TRUE,
                           approved_path |-> up.value,
                           message |-> MsgApproved]]
    ELSE [calls |-> <<>>, raised |-> None,
          decision |-> [approved |-> FALSE,
                        message |-> MsgEvalFailed,
                        failed_metrics |-> FailedMetrics(evaluation_result.results)]]
\* variant: approved is report.passed, whatever the copy did
handle_model_approval_ignoreCopy(model_s3_path, evaluation_result, training_job_name, timestamp, copyOutcome) ==
    IF evaluation_result.passed
    THEN LET up == upload_approved_model(model_s3_path, training_job_name,
                                         timestamp, copyOutcome)
         IN [calls |-> up.calls, raised |-> None,
             decision |-> [approved |-> TRUE,
                           approved_path |-> up.value,
                           message |-> MsgApproved]]
    ELSE [calls |-> <<>>, raised |-> None,
          decision |-> [approved |-> FALSE,
                        message |-> MsgEvalFailed,
                        failed_metrics |-> FailedMetrics(evaluation_result.results)]]
\* returns [calls, raised, decision]: the copy calls issued, the error that
\* escapes the function (None if none) and the approval result returned
handle_model_approval(model_s3_path, evaluation_result, training_job_name, timestamp, copyOutcome) ==
    IF evaluation_result.passed
    THEN LET up == upload_approved_model(model_s3_path, training_job_name,
                                         timestamp, copyOutcome)
         IN IF up.raised = None
            THEN [calls |-> up.calls, raised |-> None,
                  decision |-> [approved |-> TRUE,
                                approved_path |-> up.value,
                                message |-> MsgApproved]]
            ELSE \* except Exception as e
                 [calls |-> up.calls, raised |-> None,
                  decision |-> [approved |-> FALSE,
                                error |-> <<"Failed to upload approved model: ",
                                            up.raised[1]>>,
                                message |-> MsgUploadFailed]]
    ELSE [calls |-> <<>>, raised |-> None,
          decision |-> [approved |-> FALSE,
                        message |-> MsgEvalFailed,
                        failed_metrics |-> FailedMetrics(evaluation_result.results)]]

\* dict.get(key): None when the key is absent
DictGet(rec, field) == IF field \in DOMAIN rec THEN Some(rec[field]) ELSE None

\* the publish calls of send_notification (subjects)
send_notification(topic, approval_result) ==
    IF ~topic THEN <<>>
    ELSE <<IF approval_result.approved
           THEN "MLOps Pipeline - Model Evaluation SUCCESS"
           ELSE "MLOps Pipeline - Model Evaluation FAILED">>

\* the 200 response of the evaluator's lambda_handler
EvalResponse(training_job_name, evaluation_result, approval_result) ==
    [statusCode |-> 200,
     body |-> [training_job_name |-> training_job_name,
               evaluation_passed |-> evaluation_result.passed,
               model_approved |-> approval_result.approved,
               approved_model_path |-> DictGet(approval_result, "approved_path")]]

\* the 500 response of the evaluator's lambda_handler (except Exception as e)
EvalFailure(e) ==
    [statusCode |-> 500, body |-> [error |-> <<"Lambda execution failed: ", e>>]]

\* variant: the failure notification is published without a topic check
send_failure_notification_unconditional(topic) == <<"MLOps Pipeline - Training FAILED">>
\* the publish call of send_failure_notification (subject)
send_failure_notification(topic) ==
    IF ~topic THEN <<>> ELSE <<"MLOps Pipeline - Training FAILED">>

\* variant: an exception of sns publish leaves the notification function
PublishRaises_propagates(failed) == failed
\* the notification functions catch and log every exception of publish
PublishRaises(failed) == FALSE

\* the 200 response for a job that did not complete
SkipResponse(training_job_name, status) ==
    [statusCode |-> 200,
     body |-> [message |-> <<"Training job ", status, ", no evaluation needed">>,
               training_job_name |-> training_job_name,
               status |-> status]]

----------------------------------------------------------------------------
(* model_evaluator: the inbound event *)

\* a 'SageMaker Training Job State Change' event: which of the fields the
\* handler reads are present
EvalEvent(detail, job, status, model_artifacts) ==
    [detail |-> detail, job |-> job, status |-> status, artifact |-> model_artifacts]

CompletedEvent == EvalEvent(TRUE, Some(JobName), Some("Completed"), Some(ModelS3Path))

EvalEvents ==
    {CompletedEvent,
     EvalEvent(TRUE, Some(JobName), Some("Completed"), None),
     EvalEvent(TRUE, None, Some("Completed"), Some(ModelS3Path)),
     EvalEvent(TRUE, Some(JobName), None, Some(ModelS3Path)),
     EvalEvent(TRUE, None, None, None),
     EvalEvent(FALSE, None, None, None),
     EvalEvent(TRUE, Some(JobName), Some("Failed"), None),
     EvalEvent(TRUE, Some(JobName), Some("Stopped"), None),
     EvalEvent(TRUE, Some(JobName), Some("InProgress"), None)}

\* raise ValueError(f"Invalid SageMaker event structure. Missing key: {e}")
MissingKey(k) == <<"Invalid SageMaker event structure. Missing key: ", k>>

\* [raised, info]
extract_training_info_from_event(ev) ==
    LET fail(k) == [raised |-> Some(MissingKey(k)), info |-> None] IN
    IF ~ev.detail THEN fail("detail")
    ELSE IF ev.job = None THEN fail("TrainingJobName")
    ELSE IF ev.status = None THEN fail("TrainingJobStatus")
    ELSE IF ev.status[1] = "Completed" /\ ev.artifact = None THEN fail("ModelArtifacts")
    ELSE [raised |-> None,
          info |-> Some([job_name |-> ev.job[1], status |-> ev.status[1],
                         model_artifact |-> IF ev.status[1] = "Completed"
                                            THEN ev.artifact ELSE None])]

----------------------------------------------------------------------------
(* Values of variables that hold nothing yet. *)

----------------------------------------------------------------------------
(* training_orchestrator: its own evaluate_model, perform_evaluation,
   handle_model_approval and send_notification *)

\* the loop over thresholds.items(), on what is left of the thresholds
RECURSIVE TO_Loop(_, _, _)
TO_Loop(metrics_, rest, evaluation_report) ==
    IF rest = <<>> THEN evaluation_report
    ELSE LET metric_name == Head(rest)[1]
             threshold_value == Head(rest)[2]
         IN IF metric_name \notin DOMAIN metrics_
            THEN TO_Loop(metrics_, Tail(rest),
                   [passed |-> FALSE,
                    results |-> DictSet(evaluation_report.results, metric_name,
                                  [status |-> "missing", value |-> None,
                                   threshold |-> threshold_value,
                                   passed |-> FALSE])])
            ELSE LET metric_value == metrics_[metric_name]
                     passed == metric_value >= threshold_value
                 IN TO_Loop(metrics_, Tail(rest),
                      [passed |-> evaluation_report.passed /\ passed,
                       results |-> DictSet(evaluation_report.results, metric_name,
                                     [status |-> IF passed THEN "pass" ELSE "fail",
                                      value |-> Some(metric_value),
                                      threshold |-> threshold_value,
                                      passed |-> passed])])

\* perform_evaluation of the training handler
TO_perform_evaluation(metrics_, thresholds_) ==
    LET evaluation_report == TO_Loop(metrics_, thresholds_,
                                     [passed |-> TRUE, results |-> <<>>])
        total_checks == Len(thresholds_)
        passed_checks == Cardinality({i \in 1..Len(evaluation_report.results) :
                                        evaluation_report.results[i][2].passed})
    IN [passed |-> evaluation_report.passed,
        results |-> evaluation_report.results,
        summary |-> [total_checks |-> total_checks,
                     passed_checks |-> passed_checks,
                     failed_checks |-> total_checks - passed_checks,
                     pass_rate |-> IF total_checks > 0
                                   THEN Quot(passed_checks, total_checks)
                                   ELSE Zero]]

\* the report the training handler's evaluate_model returns when anything
\* in it raises: it has no 'summary'
TO_ErrorReport(e) == [passed |-> FALSE, error |-> e, results |-> <<>>]

TO_evaluate_model(outcome, metrics_, thresholds_) ==
    IF outcome = "ok" THEN TO_perform_evaluation(metrics_, thresholds_)
    ELSE TO_ErrorReport(outcome)

\* upload_approved_model of the training handler
TO_upload_approved_model(model_s3_path, training_job_name, timestamp, copyOutcome) ==
    LET parsed == UrlParse(model_s3_path)
        bucket == parsed.netloc
        original_key == LStripSlash(parsed.path)
        approved_key == <<"models", "/", "approved", "/", training_job_name, "-",
                          ToString(timestamp), "/", "model", ".", "tar", ".", "gz">>
    IN [calls |-> <<[request |-> [CopySource |-> [Bucket |-> bucket,
                                                  Key |-> original_key],
                                  Bucket |-> bucket, Key |-> approved_key],
                     outcome |-> copyOutcome]>>,
        raised |-> IF copyOutcome = "ok" THEN None ELSE Some(copyOutcome),
        value |-> <<"s3://", bucket, "/">> \o approved_key]

\* handle_model_approval of the training handler: [calls, raised, decision]
TO_handle_model_approval(model_s3_path, evaluation_result, training_job_name, timestamp, copyOutcome) ==
    IF ~evaluation_result.passed
    THEN LET results == evaluation_result.results
             failed == {i \in 1..Len(results) : ~results[i][2].passed}
             \* the failed entries, in the order of the results
             nth(n) == CHOOSE i \in failed :
                         Cardinality({j \in failed : j < i}) = n - 1
         IN [calls |-> <<>>, raised |-> None,
             decision |-> [approved |-> FALSE,
                           message |-> MsgEvalFailed,
                           failed_metrics |-> [n \in 1..Cardinality(failed) |->
                                                 results[nth(n)][1]]]]
    ELSE LET up == TO_upload_approved_model(model_s3_path, training_job_name,
                                            timestamp, copyOutcome)
         IN IF up.raised # None
            THEN [calls |-> up.calls, raised |-> None,
                  decision |-> [approved |-> FALSE,
                                error |-> <<"Failed to upload approved model: ",
                                            up.raised[1]>>,
                                message |-> MsgUploadFailed]]
            ELSE [calls |-> up.calls, raised |-> None,
                  decision |-> [approved |-> TRUE,
                                approved_path |-> up.value,
                                message |-> MsgApproved]]

\* whether building the message raises: evaluation_result['summary'] of a
\* report without one (KeyError), f"{result['value']:.4f}" of None (TypeError)
TO_MessageRaises(evaluation_result) ==
    \/ "summary" \notin DOMAIN evaluation_result
    \/ \E i \in 1..Len(evaluation_result.results) :
         evaluation_result.results[i][2].value = None

\* the publish calls of the training handler's send_notification (subjects);
\* the message is built before publish is called, inside the try
TO_send_notification(topic, evaluation_result, approval_result) ==
    IF ~topic THEN <<>>
    ELSE IF TO_MessageRaises(evaluation_result) THEN <<>>
    ELSE <<IF approval_result.approved
           THEN "MLOps Pipeline - Training SUCCESS"
           ELSE "MLOps Pipeline - Training FAILED">>

\* the 200 response of the training lambda_handler
TrainResponse(training_job_name, evaluation_result, approval_result) ==
    [statusCode |-> 200,
     body |-> [training_job_name |-> training_job_name,
               training_status |-> "Completed",
               evaluation_passed |-> evaluation_result.passed,
               model_approved |-> approval_result.approved,
               approved_model_path |-> DictGet(approval_result, "approved_path")]]

\* the 500 response for a job that ended Failed or Stopped
TrainJobFailed(training_job_name, status) ==
    [statusCode |-> 500,
     body |-> [error |-> <<"Training job ", training_job_name,
                           " failed with status: ", status>>,
               training_job_name |-> training_job_name,
               training_status |-> status]]

----------------------------------------------------------------------------
(* ops/evaluate_model.py: evaluate_metrics *)

\* the report after the first n thresholds were checked
RECURSIVE OpsChecked(_, _, _)
OpsChecked(metrics_, thresholds_, n) ==
    IF n = 0 THEN [passed |-> TRUE, results |-> <<>>]
    ELSE LET before == OpsChecked(metrics_, thresholds_, n - 1)
             metric_name == thresholds_[n][1]
             threshold_value == thresholds_[n][2]
         IN IF metric_name \notin DOMAIN metrics_
            THEN [passed |-> FALSE,
                  results |-> DictSet(before.results, metric_name,
                                [status |-> "missing", value |-> None,
                                 threshold |-> threshold_value, passed |-> FALSE])]
            ELSE LET metric_value == metrics_[metric_name]
                     passed == metric_value >= threshold_value
                 IN [passed |-> IF ~passed THEN FALSE ELSE before.passed,
                     results |-> DictSet(before.results, metric_name,
                                   [status |-> IF passed THEN "pass" ELSE "fail",
                                    value |-> Some(metric_value),
                                    threshold |-> threshold_value,
                                    passed |-> passed])]

\* sum(1 for r in report['results'].values() if r['passed'])
RECURSIVE OpsPassedChecks(_, _)
OpsPassedChecks(results, n) ==
    IF n = 0 THEN 0
    ELSE OpsPassedChecks(results, n - 1) + (IF results[n][2].passed THEN 1 ELSE 0)

\* variant: the pass rate of no checks is 1
evaluate_metrics_rateOfOne(metrics_, thresholds_) ==
    LET checked == OpsChecked(metrics_, thresholds_, Len(thresholds_))
        total_checks == Len(thresholds_)
        passed_checks == OpsPassedChecks(checked.results, Len(checked.results))
    IN <<checked.passed,
         [passed |-> checked.passed, results |-> checked.results,
          summary |-> [total_checks |-> total_checks,
                       passed_checks |-> passed_checks,
                       failed_checks |-> total_checks - passed_checks,
                       pass_rate |-> IF total_checks > 0
                                     THEN Quot(passed_checks, total_checks)
                                     ELSE <<1, 1>>]]>>
\* return report['passed'], report
evaluate_metrics(metrics_, thresholds_) ==
    LET checked == OpsChecked(metrics_, thresholds_, Len(thresholds_))
        total_checks == Len(thresholds_)
        passed_checks == OpsPassedChecks(checked.results, Len(checked.results))
    IN <<checked.passed,
         [passed |-> checked.passed, results |-> checked.results,
          summary |-> [total_checks |-> total_checks,
                       passed_checks |-> passed_checks,
                       failed_checks |-> total_checks - passed_checks,
                       pass_rate |-> IF total_checks > 0
                                     THEN Quot(passed_checks, total_checks)
                                     ELSE Zero]]>>

NoReport == [passed |-> FALSE, pending |-> TRUE]
NoDecision == [approved |-> FALSE, pending |-> TRUE]
NoResponse == [statusCode |-> 0]

EvalIdle ==
    /\ fetches = <<>>
    /\ report = NoReport
    /\ raisedReport = NoReport
    /\ decision = NoDecision
    /\ copyCalls = <<>>
    /\ enotes = <<>>
    /\ eresponse = NoResponse

NoJob == [metrics |-> <<>>, thresholds |-> <<>>, archive |-> "with_metrics"]

\* the training handler has evaluated nothing yet
TrainUnevaluated ==
    /\ tstatus = <<>>
    /\ treport = NoReport
    /\ tdecision = NoDecision
    /\ tcopies = <<>>
    /\ tnotes = <<>>

TrainIdle ==
    /\ tpc = "idle"
    /\ tevent = [format |-> "none"]
    /\ tcalls = <<>>
    /\ tresponse = NoResponse
    /\ tjob = NoJob
    /\ TrainUnevaluated

RaceIdle ==
    /\ rkind = "none"
    /\ rpc = <<>>
    /\ rseen = <<>>
    /\ rcalls = <<>>
    /\ rstatus = "Absent"

FnIdle ==
    /\ fin = [fn |-> "none"]
    /\ fout = None

\* no invocation of trigger-new-file
TrigIdle ==
    /\ gpc = <<>> /\ gstamp = <<>> /\ gseen = <<>> /\ gtodo = <<>>
    /\ glog = <<>> /\ gresponse = <<>>
    /\ gconfigs = {} /\ gmodels = {}
    /\ gstatus = "Absent" /\ gconfig = None
    /\ gfaults = 0

OthersIdle == TrainIdle /\ RaceIdle /\ FnIdle /\ TrigIdle

DeployIdle ==
    /\ dpc = "idle"
    /\ envBucket = FALSE
    /\ event = [format |-> "none"]
    /\ artifact = "valid"
    /\ epStatus = "Absent"
    /\ epConfig = None
    /\ calls = <<>>
    /\ describeResult = [kind |-> "none"]
    /\ model_name = None
    /\ previous_config_name = None
    /\ clock = 0
    /\ start_time = 0
    /\ healthy = None
    /\ polls = <<>>
    /\ dnotes = <<>>
    /\ dresponse = NoResponse

\* the evaluator is not invoked
EvalUnused ==
    /\ metrics = <<>> /\ thresholds = <<>> /\ raised = <<>>
    /\ eevent = CompletedEvent /\ archive = "with_metrics"
    /\ epc = "idle"
    /\ EvalIdle

----------------------------------------------------------------------------
(* The evaluator's lambda_handler for a Completed training job. *)

InitEval ==
    /\ metrics \in MetricSets
    /\ thresholds \in ThresholdSets
    /\ raised = metrics
    /\ eevent = CompletedEvent
    /\ archive \in ArchiveKinds
    \* the metrics matter only where the archive has a metrics.json to read
    /\ archive # "with_metrics" => metrics = <<>>
    /\ snsTopic \in BOOLEAN
    /\ pubFailed = FALSE
    /\ epc = "start"
    /\ EvalIdle
    /\ DeployIdle
    /\ OthersIdle

\* training_info = extract_training_info_from_event(event), and the branch
\* for a job that did not complete
E_Receive ==
    /\ epc = "receive"
    /\ LET ex == extract_training_info_from_event(eevent) IN
       IF ex.raised # None
       THEN /\ eresponse' = EvalFailure(ex.raised[1])
            /\ epc' = "done"
            /\ UNCHANGED <<enotes, pubFailed>>
       ELSE IF ex.info[1].status # "Completed"
            THEN \E pubOk \in BOOLEAN :
                   LET sent == IF ex.info[1].status \in {"Failed", "Stopped"}
                               THEN send_failure_notification(snsTopic) ELSE <<>>
                       failed == sent # <<>> /\ ~pubOk
                   IN /\ enotes' = enotes \o sent
                      /\ pubFailed' = (pubFailed \/ failed)
                      /\ eresponse' = IF PublishRaises(failed)
                                      THEN EvalFailure("publish failed")
                                      ELSE SkipResponse(ex.info[1].job_name,
                                                        ex.info[1].status)
                      /\ epc' = "done"
            ELSE /\ epc' = "start"
                 /\ UNCHANGED <<enotes, pubFailed, eresponse>>
    /\ UNCHANGED <<metrics, thresholds, raised, report, raisedReport, decision,
                   copyCalls, eevent, archive, fetches, snsTopic, deployVars,
                   otherVars>>

\* evaluation_result = evaluate_model(model_s3_path)
E_Evaluate ==
    /\ epc = "start"
    /\ LET model_s3_path == extract_training_info_from_event(eevent).info[1].model_artifact[1]
           key == LStripSlash(UrlParse(model_s3_path).path)
       IN fetches' = Append(fetches, key)
    /\ \E downloaded \in BOOLEAN :
         LET ex == extract_metrics_from_model_archive(Archive(archive, metrics))
             outcome == IF ~downloaded THEN "download failed"
                        ELSE IF ex.raised # None THEN ex.raised[1]
                        ELSE "ok"
         IN report' = evaluate_model(outcome,
                                     IF outcome = "ok" THEN ex.value[1] ELSE <<>>,
                                     thresholds)
    /\ epc' = "approve"
    /\ UNCHANGED <<metrics, thresholds, raised, raisedReport, decision,
                   copyCalls, enotes, eresponse, eevent, archive, snsTopic,
                   pubFailed, deployVars, otherVars>>

\* approval_result = handle_model_approval(model_s3_path, evaluation_result, job)
E_Approve ==
    /\ epc = "approve"
    /\ \E timestamp \in Stamps, copyOutcome \in CopyOutcomes :
         LET r == handle_model_approval(ModelS3Path, report, JobName,
                                        timestamp, copyOutcome)
         IN /\ copyCalls' = copyCalls \o r.calls
            /\ IF r.raised = None
               THEN /\ decision' = r.decision
                    /\ eresponse' = eresponse
                    /\ epc' = "notify"
               ELSE /\ decision' = decision
                    /\ eresponse' = EvalFailure(r.raised[1])
                    /\ epc' = "done"
    /\ UNCHANGED <<metrics, thresholds, raised, report, raisedReport,
                   enotes, eevent, archive, fetches, snsTopic, pubFailed,
                   deployVars, otherVars>>

\* send_notification(...) ; return {'statusCode': 200, ...}
E_Respond ==
    /\ epc = "notify"
    /\ \E pubOk \in BOOLEAN :
         LET sent == send_notification(snsTopic, decision)
             failed == sent # <<>> /\ ~pubOk
         IN /\ enotes' = enotes \o sent
            /\ pubFailed' = (pubFailed \/ failed)
            /\ eresponse' = IF PublishRaises(failed)
                            THEN EvalFailure("publish failed")
                            ELSE EvalResponse(JobName, report, decision)
    /\ epc' = "done"
    /\ UNCHANGED <<metrics, thresholds, raised, report, raisedReport,
                   decision, copyCalls, eevent, archive, fetches, snsTopic,
                   deployVars, otherVars>>

NextEval == E_Evaluate \/ E_Approve \/ E_Respond

SpecEval == InitEval /\ [][NextEval]_vars

----------------------------------------------------------------------------
(* perform_evaluation applied to a metric mapping and to a raised one. *)

\* mappings with the keys of m and values pointwise >= those of m
RaisedFrom(m) == {m2 \in [DOMAIN m -> Values] : \A k \in DOMAIN m : m2[k] >= m[k]}

InitMono ==
    /\ metrics \in MetricSets
    /\ thresholds \in ThresholdSets
    /\ raised \in RaisedFrom(metrics)
    /\ eevent = CompletedEvent
    /\ archive = "with_metrics"
    /\ snsTopic = FALSE
    /\ pubFailed = FALSE
    /\ epc = "start"
    /\ EvalIdle
    /\ DeployIdle
    /\ OthersIdle

M_Evaluate ==
    /\ epc = "start"
    /\ report' = perform_evaluation(metrics, thresholds)
    /\ raisedReport' = perform_evaluation(raised, thresholds)
    /\ epc' = "compared"
    /\ UNCHANGED <<metrics, thresholds, raised, decision, copyCalls, enotes,
                   eresponse, eevent, archive, fetches, snsTopic, pubFailed,
                   deployVars, otherVars>>

NextMono == M_Evaluate

SpecMono == InitMono /\ [][NextMono]_vars

----------------------------------------------------------------------------
(* deployment_orchestrator: names, events, artifacts *)

\* _verify_endpoint_health(endpoint_name, max_wait_time=300)
MaxWaitTime == 300
\* time.sleep(30)
PollInterval == 30
\* extra seconds an iteration of the polling loop can take, at most
MaxJitter == 30

\* str.replace(a, b), token by token
Replace(s, a, b) == [i \in 1..Len(s) |-> IF s[i] = a THEN b ELSE s[i]]
\* variant: the prefix is compared without its last character
StartsWith_short(s, p) ==
    Len(s) >= Len(p) /\ SubSeq(s, 1, Len(p) - 1) = SubSeq(p, 1, Len(p) - 1)
\* str.startswith(p)
StartsWith(s, p) == Len(s) >= Len(p) /\ SubSeq(s, 1, Len(p)) = p
\* urllib.parse.unquote_plus: '+' becomes a space (no key here has a % escape)
unquote_plus(s) == Replace(s, "+", " ")

\* 'models/approved/'
ApprovedPrefix == <<"models", "/", "approved", "/">>

_model_name_from_key(key, ts) ==
    LET base == Replace(Replace(key, "/", "-"), ".", "-")
    IN <<"model", "-">> \o base \o <<"-", ToString(ts)>>

_endpoint_config_name(model_name_) == <<"cfg", "-">> \o model_name_

\* the config an existing endpoint references before this invocation
OldConfig == <<"cfg", "-", "model", "-", "old">>

RawKey == <<"models", "/", "raw", "/", JobName, "/", "model", ".", "tar", ".", "gz">>
\* a key that shares all of the approved prefix but its final '/'
NearKey ==
    <<"models", "/", "approved", "-", "old", "/", JobName, "/", "model", ".", "tar", ".", "gz">>

\* inbound events: S3 records, EventBridge details, and malformed ones
Events ==
    {[format |-> "Records", hasS3Record |-> TRUE, wellFormed |-> TRUE,
      bucket |-> "bucket", key |-> k] :
        k \in {ApprovedKey(JobName, 0), RawKey, NearKey}}
    \cup {[format |-> "Records", hasS3Record |-> TRUE, wellFormed |-> FALSE],
          [format |-> "Records", hasS3Record |-> FALSE, wellFormed |-> TRUE]}
    \cup {[format |-> "detail", bucket |-> Some("bucket"),
           key |-> Some(ApprovedKey(JobName, 0))],
          [format |-> "detail", bucket |-> Some("bucket"), key |-> None],
          [format |-> "detail", bucket |-> None, key |-> Some(RawKey)],
          [format |-> "detail", bucket |-> None,
           key |-> Some(ApprovedKey(JobName, 0))]}
    \cup {[format |-> "other"]}

\* bucket and key as lambda_handler extracts them: [raised, bucket, key]
ExtractEvent(ev) ==
    IF ev.format = "Records"
    THEN IF ~ev.hasS3Record
         THEN [raised |-> None, bucket |-> None, key |-> None]
         ELSE IF ~ev.wellFormed
              THEN [raised |-> Some("KeyError"), bucket |-> None, key |-> None]
              ELSE [raised |-> None, bucket |-> Some(ev.bucket),
                    key |-> Some(unquote_plus(ev.key))]
    ELSE IF ev.format = "detail"
         THEN \* request_params.get('bucketName') or BUCKET
              [raised |-> None,
               bucket |-> IF ev.bucket # None THEN ev.bucket
                          ELSE IF envBucket THEN Some("bucket") ELSE None,
               key |-> ev.key]
         ELSE [raised |-> None, bucket |-> None, key |-> None]

\* what the object at the key is
Artifacts ==
    {"valid", "weights_only", "no_model_files", "empty", "corrupt", "unreadable"}

\* the object behind each label: whether download_file succeeds, whether
\* the bytes are a gzip tar, and the names tar.getnames() returns
Content(art) ==
    CASE art = "valid" ->
           [fetched |-> TRUE, gzip |-> TRUE,
            members |-> <<"pytorch_model.bin", "metrics.json">>]
      [] art = "weights_only" ->
           [fetched |-> TRUE, gzip |-> TRUE, members |-> <<"model.safetensors", "model.pt">>]
      [] art = "no_model_files" ->
           [fetched |-> TRUE, gzip |-> TRUE, members |-> <<"README.md">>]
      [] art = "empty" -> [fetched |-> TRUE, gzip |-> TRUE, members |-> <<>>]
      [] art = "corrupt" -> [fetched |-> TRUE, gzip |-> FALSE, members |-> <<>>]
      [] art = "unreadable" -> [fetched |-> FALSE, gzip |-> FALSE, members |-> <<>>]

\* the extension of a member name
Suffix(name) ==
    CASE name = "pytorch_model.bin" -> ".bin"
      [] name = "metrics.json" -> ".json"
      [] name = "model.pt" -> ".pt"
      [] name = "model.safetensors" -> ".safetensors"
      [] name = "README.md" -> ".md"
\* name.endswith(('.bin', '.pt', '.pth', '.pkl', '.json', '.txt'))
IsModelFile(name) == Suffix(name) \in {".bin", ".pt", ".pth", ".pkl", ".json", ".txt"}
\* any(... for name in members)
has_model_files(members) == \E i \in 1..Len(members) : IsModelFile(members[i])

\* variant: an archive without a recognised model file is rejected
_validate_model_artifact_strict(art) ==
    LET c == Content(art) IN
    IF ~c.fetched THEN FALSE
    ELSE IF ~c.gzip THEN FALSE
    ELSE IF c.members = <<>> THEN FALSE
    ELSE has_model_files(c.members)
\* True for a gzip tar with at least one member, False on any exception
_validate_model_artifact(art) ==
    LET c == Content(art) IN
    IF ~c.fetched THEN FALSE              \* s3.download_file raised
    ELSE IF ~c.gzip THEN FALSE            \* tarfile.open raised
    ELSE IF c.members = <<>> THEN FALSE   \* ValueError("Model artifact is empty")
    ELSE TRUE                             \* has_model_files is only logged

EndpointStatuses ==
    {"Absent", "Creating", "InService", "Updating", "Failed", "OutOfService"}

\* messages of the errors describe_endpoint raises for an endpoint that
\* does not exist, and of an unrelated error
NotFoundErrors == {"Could not find endpoint", "ResourceNotFound"}
TransientError == "ThrottlingException"
\* 'Could not find' in str(e) or 'ResourceNotFound' in str(e)
IsNotFound(e) == e \in NotFoundErrors

\* outcomes describe_endpoint can have in the current control-plane state
DescribeOutcomes ==
    {[kind |-> "Error", error |-> TransientError]}
    \cup IF epStatus = "Absent"
         THEN {[kind |-> "Error", error |-> e] : e \in NotFoundErrors}
         ELSE {[kind |-> "Found", status |-> epStatus, config |-> epConfig[1]]}

Call(op, name) == [op |-> op, name |-> name]
\* a call as the log keeps it: ok is FALSE when the call raised
Returned(call, ok) == [op |-> call.op, name |-> call.name, ok |-> ok]

\* variant: an exception of a SageMaker call is swallowed
Raises_swallowed(ok) == FALSE
\* a failing call inside the handler's try block leaves it by an exception
Raises(ok) == ~ok

\* variant: the step-4 describe does not keep the config name
CapturedConfig_dropped(r) == None
\* previous_config_name after the step-4 describe with outcome r
CapturedConfig(r) == IF r.kind = "Found" THEN Some(r.config) ELSE None

\* variant: the branches of step 5 are swapped
UpsertOp_swapped(prev) ==
    IF prev # None THEN "create_endpoint" ELSE "update_endpoint"
\* step 5: update if a previous config name was captured, else create
UpsertOp(prev) ==
    IF prev # None THEN "update_endpoint" ELSE "create_endpoint"

\* variant: _rollback_deployment never calls update_endpoint
RollbackCalls_none(prev) == <<>>
\* the calls of _rollback_deployment(endpoint_name, prev)
RollbackCalls(prev) ==
    IF prev # None THEN <<Call("update_endpoint", prev[1])>> ELSE <<>>

\* variant: the loop returns True for every status that is not a transition
PollVerdict_anySettled(status) ==
    IF status \in {"InService", "Failed", "OutOfService"} THEN Some(TRUE) ELSE None
\* variant: the loop treats OutOfService as a state still in transition
PollVerdict_waitOutOfService(status) ==
    IF status = "InService" THEN Some(TRUE)
    ELSE IF status = "Failed" THEN Some(FALSE)
    ELSE None
\* one iteration of the polling loop: return True, return False, or sleep
PollVerdict(status) ==
    IF status = "InService" THEN Some(TRUE)
    ELSE IF status \in {"Failed", "OutOfService"} THEN Some(FALSE)
    ELSE None

\* the publish calls of _send_notification (subjects)
_send_notification(topic, subject) == IF topic THEN <<subject>> ELSE <<>>

\* the ways an invocation that took up an approved key can end
TerminalOutcomes ==
    {"ValidationFailed", "SystemError", "EndpointError", "RolledBack",
     "FailedNoRollback", "Succeeded"}

\* variant: a health failure without a rollback is not reported
Subjects_silentNoRollback(outcome) ==
    CASE outcome = "ValidationFailed" -> <<"Model Deployment Failed - Validation Error">>
      [] outcome = "SystemError" -> <<"Model Deployment Failed - System Error">>
      [] outcome = "EndpointError" -> <<"Model Deployment Failed - Endpoint Error",
                                        "Model Deployment Failed - System Error">>
      [] outcome = "RolledBack" -> <<"Model Deployment Failed - Health Check">>
      [] outcome = "FailedNoRollback" -> <<>>
      [] outcome = "Succeeded" -> <<"Model Deployment Successful">>
\* variant: a validation failure is not reported
Subjects_silentValidation(outcome) ==
    CASE outcome = "ValidationFailed" -> <<>>
      [] outcome = "SystemError" -> <<"Model Deployment Failed - System Error">>
      [] outcome = "EndpointError" -> <<"Model Deployment Failed - Endpoint Error",
                                        "Model Deployment Failed - System Error">>
      [] outcome = "RolledBack" -> <<"Model Deployment Failed - Health Check">>
      [] outcome = "FailedNoRollback" -> <<"Model Deployment Failed - Health Check">>
      [] outcome = "Succeeded" -> <<"Model Deployment Successful">>
\* the subjects lambda_handler passes to _send_notification, per outcome
Subjects(outcome) ==
    CASE outcome = "ValidationFailed" -> <<"Model Deployment Failed - Validation Error">>
      [] outcome = "SystemError" -> <<"Model Deployment Failed - System Error">>
      [] outcome = "EndpointError" -> <<"Model Deployment Failed - Endpoint Error",
                                        "Model Deployment Failed - System Error">>
      [] outcome = "RolledBack" -> <<"Model Deployment Failed - Health Check">>
      [] outcome = "FailedNoRollback" -> <<"Model Deployment Failed - Health Check">>
      [] outcome = "Succeeded" -> <<"Model Deployment Successful">>

RECURSIVE Publish(_, _)
\* _send_notification for each subject in turn
Publish(topic, subjects) ==
    IF subjects = <<>> THEN <<>>
    ELSE _send_notification(topic, Head(subjects)) \o Publish(topic, Tail(subjects))

Response(code, kind) == [statusCode |-> code, kind |-> kind]
\* the return value after a failed health check and
\* _rollback_deployment(endpoint_name, prev)
HealthFailedResponse(prev) ==
    [statusCode |-> 500, kind |-> "health check failed", rollback_attempted |-> TRUE]

----------------------------------------------------------------------------
(* deployment_orchestrator: lambda_handler *)

InitDeploy ==
    /\ EvalUnused
    /\ OthersIdle
    /\ snsTopic \in BOOLEAN
    /\ pubFailed = FALSE
    /\ dpc = "start"
    /\ event \in Events
    \* BUCKET_NAME is read only for an EventBridge event without bucketName
    /\ envBucket \in IF event.format = "detail" /\ event.bucket = None
                     THEN BOOLEAN ELSE {FALSE}
    /\ artifact \in Artifacts
    /\ epStatus \in EndpointStatuses
    /\ epConfig = IF epStatus = "Absent" THEN None ELSE Some(OldConfig)
    /\ calls = <<>>
    /\ describeResult = [kind |-> "none"]
    /\ model_name = None
    /\ previous_config_name = None
    /\ clock = 0
    /\ start_time = 0
    /\ healthy = None
    /\ polls = <<>>
    /\ dnotes = <<>>
    /\ dresponse = NoResponse

\* publish the subjects, each publish call failing or not, then return resp
Notified(subjects, resp) ==
    \E pubOk \in BOOLEAN :
      LET sent == Publish(snsTopic, subjects)
          failed == sent # <<>> /\ ~pubOk
      IN /\ dnotes' = dnotes \o sent
         /\ pubFailed' = (pubFailed \/ failed)
         /\ dresponse' = IF PublishRaises(failed) THEN Response(500, "unhandled")
                         ELSE resp

\* variant: the exception leaves lambda_handler
Unhandled_raises ==
    /\ dpc' = "raised"
    /\ UNCHANGED <<dnotes, dresponse, pubFailed>>
\* except Exception as e (the handler's outer handler): notify, return 500
Unhandled ==
    /\ Notified(Subjects("SystemError"), Response(500, "unhandled"))
    /\ dpc' = "done"

\* extract bucket and key; reject an event without them; ignore other paths
D_Receive ==
    /\ dpc = "start"
    /\ LET ex == ExtractEvent(event) IN
       IF ex.raised # None
       THEN Unhandled
       ELSE IF ex.bucket = None \/ ex.key = None
            THEN /\ dresponse' = Response(400, "no bucket/key")
                 /\ dpc' = "done"
                 /\ UNCHANGED <<dnotes, pubFailed>>
            ELSE IF ~StartsWith(ex.key[1], ApprovedPrefix)
                 THEN /\ dresponse' = Response(200, "ignored")
                      /\ dpc' = "done"
                      /\ UNCHANGED <<dnotes, pubFailed>>
                 ELSE /\ dresponse' = dresponse
                      /\ dpc' = "validate"
                      /\ UNCHANGED <<dnotes, pubFailed>>
    /\ UNCHANGED <<evalVars, otherVars, snsTopic, event, envBucket, artifact, epStatus, epConfig, calls,
                   describeResult, model_name, previous_config_name, clock,
                   start_time, healthy, polls>>

\* Step 1: validate the artifact; Step 2 begins: derive the names
D_Validate ==
    /\ dpc = "validate"
    /\ calls' = Append(calls, Returned(Call("download_file", ExtractEvent(event).key[1]),
                                        Content(artifact).fetched))
    /\ IF ~_validate_model_artifact(artifact)
       THEN /\ Notified(Subjects("ValidationFailed"), Response(400, "validation failed"))
            /\ dpc' = "done"
            /\ model_name' = model_name
       ELSE /\ model_name' = Some(_model_name_from_key(ExtractEvent(event).key[1], clock))
            /\ dpc' = "create_model"
            /\ UNCHANGED <<dnotes, dresponse, pubFailed>>
    /\ UNCHANGED <<evalVars, otherVars, snsTopic, event, envBucket, artifact, epStatus, epConfig,
                   describeResult, previous_config_name, clock, start_time, healthy, polls>>

\* Step 2: sagemaker.create_model
D_CreateModel ==
    /\ dpc = "create_model"
    /\ \E ok \in BOOLEAN :
         /\ calls' = Append(calls, Returned(Call("create_model", model_name[1]), ok))
         /\ IF Raises(ok) THEN Unhandled
            ELSE /\ dpc' = "create_config"
                 /\ UNCHANGED <<dnotes, dresponse, pubFailed>>
    /\ UNCHANGED <<evalVars, otherVars, snsTopic, event, envBucket, artifact, epStatus, epConfig,
                   describeResult, model_name, previous_config_name, clock,
                   start_time, healthy, polls>>

\* Step 3: sagemaker.create_endpoint_config
D_CreateConfig ==
    /\ dpc = "create_config"
    /\ \E ok \in BOOLEAN :
         /\ calls' = Append(calls, Returned(Call("create_endpoint_config",
                                                 _endpoint_config_name(model_name[1])), ok))
         /\ IF Raises(ok) THEN Unhandled
            ELSE /\ dpc' = "describe"
                 /\ UNCHANGED <<dnotes, dresponse, pubFailed>>
    /\ UNCHANGED <<evalVars, otherVars, snsTopic, event, envBucket, artifact, epStatus, epConfig,
                   describeResult, model_name, previous_config_name, clock,
                   start_time, healthy, polls>>

\* Step 4: describe the endpoint, keep its config name for rollback
D_Describe ==
    /\ dpc = "describe"
    /\ \E r \in DescribeOutcomes :
         /\ calls' = Append(calls, Returned(Call("describe_endpoint", <<"endpoint">>),
                                            r.kind = "Found"))
         /\ describeResult' = r
         /\ previous_config_name' = CapturedConfig(r)
    /\ dpc' = "upsert"
    /\ UNCHANGED <<evalVars, otherVars, snsTopic, event, envBucket, artifact, epStatus, epConfig,
                   model_name, clock, start_time, healthy, polls, dnotes, dresponse, pubFailed>>

\* the control plane accepts create_endpoint only for a name not in use
CanCreate == epStatus = "Absent"
\* the control plane accepts update_endpoint only for an endpoint at rest
CanUpdate == epStatus \in {"InService", "Failed", "OutOfService"}

\* Step 5: update the endpoint if a config name was captured, else create it
D_Upsert ==
    /\ dpc = "upsert"
    /\ LET cfg_name == _endpoint_config_name(model_name[1])
           op == UpsertOp(previous_config_name)
       IN \E ok \in {b \in BOOLEAN :
                       b => IF op = "update_endpoint" THEN CanUpdate ELSE CanCreate} :
            /\ calls' = Append(calls, Returned(Call(op, cfg_name), ok))
            /\ IF ~Raises(ok)
               THEN /\ epStatus' = IF op = "update_endpoint" THEN "Updating"
                                   ELSE "Creating"
                    /\ epConfig' = Some(cfg_name)
                    /\ start_time' = clock
                    /\ dpc' = "health"
                    /\ UNCHANGED <<dnotes, dresponse, pubFailed>>
               ELSE \* notify, then raise to the outer handler
                    /\ Notified(Subjects("EndpointError"), Response(500, "unhandled"))
                    /\ dpc' = "done"
                    /\ UNCHANGED <<epStatus, epConfig, start_time>>
    /\ UNCHANGED <<evalVars, otherVars, snsTopic, event, envBucket, artifact, describeResult,
                   model_name, previous_config_name, clock, healthy, polls>>

\* Step 6: one iteration of _verify_endpoint_health's loop, or its timeout
D_Poll ==
    /\ dpc = "health"
    /\ IF clock - start_time < MaxWaitTime
       THEN \E r \in DescribeOutcomes :
              LET saw == IF r.kind = "Error" THEN "Error" ELSE r.status
                  \* not found: False; any other error: caught outside, False
                  verdict == IF r.kind = "Error" THEN Some(FALSE)
                             ELSE PollVerdict(r.status)
              IN /\ calls' = Append(calls, Returned(Call("describe_endpoint", <<"endpoint">>),
                                                    r.kind = "Found"))
                 /\ polls' = Append(polls, [at |-> clock, saw |-> saw])
                 /\ IF verdict # None
                    THEN /\ healthy' = verdict
                         /\ dpc' = "checked"
                         /\ clock' = clock
                    ELSE \* time.sleep(30)
                         /\ \E jitter \in {0, MaxJitter} :
                              clock' = clock + PollInterval + jitter
                         /\ UNCHANGED <<healthy, dpc>>
       ELSE /\ healthy' = Some(FALSE)
            /\ dpc' = "checked"
            /\ UNCHANGED <<calls, clock, polls>>
    /\ UNCHANGED <<evalVars, otherVars, snsTopic, event, envBucket, artifact, epStatus, epConfig,
                   describeResult, model_name, previous_config_name, start_time,
                   dnotes, dresponse, pubFailed>>

\* _rollback_deployment: update back to the captured config, if any
D_Rollback ==
    /\ dpc = "checked" /\ healthy = Some(FALSE)
    /\ LET rc == RollbackCalls(previous_config_name) IN
       IF rc # <<>>
       THEN \E ok \in {b \in BOOLEAN : b => CanUpdate} :
              /\ calls' = Append(calls, Returned(rc[1], ok))
              /\ IF ok THEN /\ epStatus' = "Updating"
                            /\ epConfig' = previous_config_name
                 ELSE \* the exception is logged and swallowed
                      UNCHANGED <<epStatus, epConfig>>
       ELSE UNCHANGED <<calls, epStatus, epConfig>>
    /\ dpc' = "rolled"
    /\ UNCHANGED <<evalVars, otherVars, snsTopic, event, envBucket, artifact, describeResult, model_name,
                   previous_config_name, clock, start_time, healthy, polls, dnotes,
                   dresponse, pubFailed>>

\* health check failed: notify and return 500
D_HealthFailed ==
    /\ dpc = "rolled"
    /\ Notified(Subjects(IF previous_config_name # None THEN "RolledBack"
                         ELSE "FailedNoRollback"),
                HealthFailedResponse(previous_config_name))
    /\ dpc' = "done"
    /\ UNCHANGED <<evalVars, otherVars, snsTopic, event, envBucket, artifact, epStatus, epConfig, calls,
                   describeResult, model_name, previous_config_name, clock,
                   start_time, healthy, polls>>

\* Step 7: notify success and return 200
D_Succeed ==
    /\ dpc = "checked" /\ healthy = Some(TRUE)
    /\ Notified(Subjects("Succeeded"), Response(200, "deployed"))
    /\ dpc' = "done"
    /\ UNCHANGED <<evalVars, otherVars, snsTopic, event, envBucket, artifact, epStatus, epConfig, calls,
                   describeResult, model_name, previous_config_name, clock,
                   start_time, healthy, polls>>

\* the control plane finishes a transition of the endpoint
ControlPlane ==
    /\ dpc \notin {"idle", "done"}
    /\ epStatus \in {"Creating", "Updating"}
    /\ epStatus' \in {"InService", "Failed", "OutOfService"}
    /\ UNCHANGED <<evalVars, otherVars, snsTopic, dpc, event, envBucket, artifact, epConfig, calls,
                   describeResult, model_name, previous_config_name, clock,
                   start_time, healthy, polls, dnotes, dresponse, pubFailed>>

NextDeploy ==
    \/ D_Receive \/ D_Validate \/ D_CreateModel \/ D_CreateConfig
    \/ D_Describe \/ D_Upsert \/ D_Poll \/ D_Rollback \/ D_HealthFailed
    \/ D_Succeed \/ ControlPlane

SpecDeploy == InitDeploy /\ [][NextDeploy]_vars

----------------------------------------------------------------------------
(* training_orchestrator: the inbound event and the job submission *)

\* an EventBridge S3 event: which of the fields the handler reads are present
TrainEvent(detail, bucket, key) == [detail |-> detail, bucket |-> bucket, key |-> key]

\* data/train/train.csv
DataKey == <<"data", "/", "train", "/", "train", ".", "csv">>

TrainEvents ==
    {TrainEvent(TRUE, Some("bucket"), Some(DataKey)),
     TrainEvent(TRUE, None, Some(DataKey)),
     TrainEvent(TRUE, Some("bucket"), None),
     TrainEvent(TRUE, None, None),
     TrainEvent(FALSE, None, None)}

\* raise ValueError(f"Invalid S3 event structure. Missing key: {e}")
MissingS3Key(k) == <<"Invalid S3 event structure. Missing key: ", k>>

\* variant: an event without the bucket is given a default bucket
extract_s3_info_from_event_defaultBucket(ev) ==
    IF ~ev.detail THEN [raised |-> Some(MissingS3Key("detail")), info |-> None]
    ELSE IF ev.key = None THEN [raised |-> Some(MissingS3Key("object")), info |-> None]
    ELSE [raised |-> None,
          info |-> Some([bucket |-> IF ev.bucket = None THEN "bucket" ELSE ev.bucket[1],
                         key |-> ev.key[1]])]
\* [raised, info]
extract_s3_info_from_event(ev) ==
    LET fail(k) == [raised |-> Some(MissingS3Key(k)), info |-> None] IN
    IF ~ev.detail THEN fail("detail")
    ELSE IF ev.bucket = None THEN fail("bucket")
    ELSE IF ev.key = None THEN fail("object")
    ELSE [raised |-> None, info |-> Some([bucket |-> ev.bucket[1], key |-> ev.key[1]])]

\* the handler's outer except: 500, 'Lambda execution failed: {e}'
TrainFailure(e) ==
    [statusCode |-> 500, body |-> [error |-> <<"Lambda execution failed: ", e>>]]

\* f"training-job-{timestamp}"
TrainingJobName(timestamp) == <<"training-job-", timestamp>>

\* what a training job can leave behind: its archive and the thresholds
\* the handler loads
TrainJobs ==
    {[metrics |-> m, thresholds |-> t, archive |-> a] :
       m \in {mm \in MetricSets : DOMAIN mm \subseteq {"accuracy"}},
       t \in {tt \in ThresholdSets : Len(tt) <= 1 /\ Keys(tt) \subseteq {"accuracy", "f1_score"}},
       a \in {"with_metrics", "no_metrics"}}
    \ {j \in [metrics : MetricSets, thresholds : ThresholdSets,
               archive : {"no_metrics"}] : j.metrics # <<>>}

\* TrainingJobStatus as describe_training_job reports it
TrainingStatuses == {"InProgress", "Completed", "Failed", "Stopped"}
\* describe_training_job calls that find the job in progress, at most
MaxDescribes == 2

\* s3://bucket/models/raw/{job}/output/model.tar.gz
TrainedModelPath(training_job_name) ==
    <<"s3://", "bucket", "/", "models", "/", "raw", "/", training_job_name, "/",
      "output", "/", "model", ".", "tar", ".", "gz">>

InitTrain ==
    /\ EvalUnused
    /\ DeployIdle
    /\ RaceIdle /\ FnIdle /\ TrigIdle
    /\ snsTopic \in BOOLEAN
    /\ pubFailed = FALSE
    /\ tpc = "receive"
    /\ tevent \in TrainEvents
    /\ tcalls = <<>>
    /\ tresponse = NoResponse
    /\ tjob \in TrainJobs
    /\ TrainUnevaluated

\* s3_info = extract_s3_info_from_event(event)
T_Receive ==
    /\ tpc = "receive"
    /\ LET ex == extract_s3_info_from_event(tevent) IN
       IF ex.raised # None
       THEN /\ tresponse' = TrainFailure(ex.raised[1])
            /\ tpc' = "done"
       ELSE /\ tresponse' = tresponse
            /\ tpc' = "submit"
    /\ UNCHANGED <<evalVars, snsTopic, pubFailed, deployVars, tevent, tcalls,
                   tjob, tstatus, treport, tdecision, tcopies, tnotes,
                   raceVars, fnVars, trigVars>>

\* training_job_name = start_training_job(s3_info); the job then runs and
\* the handler waits for it in monitor_training_job
T_Submit ==
    /\ tpc = "submit"
    /\ \E timestamp \in Stamps, ok \in BOOLEAN :
         /\ tcalls' = Append(tcalls, Returned(Call("create_training_job",
                                                   TrainingJobName(timestamp)), ok))
         /\ IF ok
            THEN /\ tpc' = "monitor"
                 /\ tresponse' = tresponse
            ELSE /\ tpc' = "done"
                 /\ tresponse' = TrainFailure("create_training_job failed")
    /\ UNCHANGED <<evalVars, snsTopic, pubFailed, deployVars, tevent,
                   tjob, tstatus, treport, tdecision, tcopies, tnotes,
                   raceVars, fnVars, trigVars>>

\* monitor_training_job: one describe_training_job and what follows it
T_Monitor ==
    /\ tpc = "monitor"
    /\ \E described \in BOOLEAN, status \in TrainingStatuses, pubOk \in BOOLEAN :
         IF ~described
         THEN /\ tresponse' = TrainFailure("describe_training_job failed")
              /\ tpc' = "done"
              /\ UNCHANGED <<tstatus, tnotes, pubFailed>>
         ELSE /\ Len(tstatus) < MaxDescribes \/ status # "InProgress"
              /\ tstatus' = Append(tstatus, status)
              /\ IF status = "InProgress"
                 THEN \* time.sleep(30), and the loop again
                      UNCHANGED <<tpc, tresponse, tnotes, pubFailed>>
                 ELSE IF status = "Completed"
                 THEN /\ tpc' = "evaluate"
                      /\ UNCHANGED <<tresponse, tnotes, pubFailed>>
                 ELSE LET sent == send_failure_notification(snsTopic)
                          failed == sent # <<>> /\ ~pubOk
                      IN /\ tnotes' = tnotes \o sent
                         /\ pubFailed' = (pubFailed \/ failed)
                         /\ tresponse' = IF PublishRaises(failed)
                                         THEN TrainFailure("publish failed")
                                         ELSE TrainJobFailed(tcalls[1].name, status)
                         /\ tpc' = "done"
    /\ UNCHANGED <<evalVars, snsTopic, deployVars, tevent, tcalls, tjob,
                   treport, tdecision, tcopies, raceVars, fnVars, trigVars>>

\* evaluation_result = evaluate_model(training_result['model_s3_path'])
T_Evaluate ==
    /\ tpc = "evaluate"
    /\ \E downloaded \in BOOLEAN :
         LET ex == extract_metrics_from_model_archive(Archive(tjob.archive,
                                                              tjob.metrics))
             outcome == IF ~downloaded THEN "download failed"
                        ELSE IF ex.raised # None THEN ex.raised[1]
                        ELSE "ok"
         IN treport' = TO_evaluate_model(outcome,
                                         IF outcome = "ok" THEN ex.value[1] ELSE <<>>,
                                         tjob.thresholds)
    /\ tpc' = "approve"
    /\ UNCHANGED <<evalVars, snsTopic, pubFailed, deployVars, tevent, tcalls,
                   tresponse, tjob, tstatus, tdecision, tcopies, tnotes,
                   raceVars, fnVars, trigVars>>

\* approval_result = handle_model_approval(model_s3_path, evaluation_result, job)
T_Approve ==
    /\ tpc = "approve"
    /\ \E timestamp \in Stamps, copyOutcome \in CopyOutcomes :
         LET r == TO_handle_model_approval(TrainedModelPath(tcalls[1].name),
                                           treport, tcalls[1].name,
                                           timestamp, copyOutcome)
         IN /\ tcopies' = tcopies \o r.calls
            /\ tdecision' = r.decision
    /\ tpc' = "notify"
    /\ UNCHANGED <<evalVars, snsTopic, pubFailed, deployVars, tevent, tcalls,
                   tresponse, tjob, tstatus, treport, tnotes, raceVars, fnVars, trigVars>>

\* send_notification(...) ; return {'statusCode': 200, ...}
T_Respond ==
    /\ tpc = "notify"
    /\ \E pubOk \in BOOLEAN :
         LET sent == TO_send_notification(snsTopic, treport, tdecision)
             failed == sent # <<>> /\ ~pubOk
         IN /\ tnotes' = tnotes \o sent
            /\ pubFailed' = (pubFailed \/ failed)
            /\ tresponse' = IF PublishRaises(failed)
                            THEN TrainFailure("publish failed")
                            ELSE TrainResponse(tcalls[1].name, treport, tdecision)
    /\ tpc' = "done"
    /\ UNCHANGED <<evalVars, snsTopic, deployVars, tevent, tcalls, tjob,
                   tstatus, treport, tdecision, tcopies, raceVars, fnVars, trigVars>>

----------------------------------------------------------------------------
(* The three handlers, each from the event it is invoked with. *)

\* the evaluator invoked with any event
InitIntake ==
    /\ metrics \in {m \in MetricSets : \A k \in DOMAIN m : m[k] = MaxValue}
    /\ thresholds \in {t \in ThresholdSets : Len(t) <= 1}
    /\ raised = metrics
    /\ eevent \in EvalEvents
    /\ archive \in {"with_metrics", "no_metrics"}
    /\ archive # "with_metrics" => metrics = <<>>
    /\ snsTopic \in BOOLEAN
    /\ pubFailed = FALSE
    /\ epc = "receive"
    /\ EvalIdle
    /\ DeployIdle
    /\ OthersIdle

InitPipeline == InitIntake \/ InitDeploy \/ InitTrain

NextPipeline ==
    \/ E_Receive \/ E_Evaluate \/ E_Approve \/ E_Respond
    \/ D_Receive \/ D_Validate \/ D_CreateModel \/ D_CreateConfig
    \/ D_Describe \/ D_Upsert \/ D_Poll \/ D_Rollback \/ D_HealthFailed
    \/ D_Succeed \/ ControlPlane
    \/ T_Receive \/ T_Submit \/ T_Monitor \/ T_Evaluate \/ T_Approve \/ T_Respond

SpecPipeline == InitPipeline /\ [][NextPipeline]_vars

----------------------------------------------------------------------------
(* Functions applied to drawn inputs: threshold loading and resource names *)

\* the keys a thresholds document is drawn from, each spelled as its first
\* character and the rest
ConfigKeys == {"accuracy", "f1_score", "_comment", "_description"}
Spelling(k) ==
    CASE k = "accuracy" -> <<"a", "ccuracy">>
      [] k = "f1_score" -> <<"f", "1_score">>
      [] k = "_comment" -> <<"_", "comment">>
      [] k = "_description" -> <<"_", "description">>
\* k.startswith('_')
StartsWithUnderscore(k) == Head(Spelling(k)) = "_"

\* config/evaluation_thresholds.json as get_object and json.loads find it:
\* unreachable, not JSON, JSON that is no object, or an object (its items in
\* document order)
ThresholdDocs ==
    {[kind |-> k, items |-> <<>>] : k \in {"unreachable", "not_json", "not_object"}}
    \cup {[kind |-> "object", items |-> [i \in 1..Len(ks) |-> <<ks[i], vs[i]>>]] :
            ks \in {s \in UNION {[1..n -> ConfigKeys] : n \in 0..Cardinality(ConfigKeys)} :
                      Injective(s)},
            vs \in [1..Cardinality(ConfigKeys) -> Values]}

\* the defaults, in hundredths
DefaultThresholds ==
    <<<<"accuracy", 85>>, <<"f1_score", 80>>, <<"precision", 75>>, <<"recall", 75>>>>

\* variant: comment entries are kept
load_evaluation_thresholds_keepComments(doc) ==
    IF doc.kind # "object" THEN DefaultThresholds ELSE doc.items
\* {k: v for k, v in thresholds.items() if not k.startswith('_')}, or the
\* defaults when anything in the try block raises
load_evaluation_thresholds(doc) ==
    IF doc.kind # "object" THEN DefaultThresholds
    ELSE SelectSeq(doc.items, LAMBDA kv : ~StartsWithUnderscore(kv[1]))

\* a moment of the clock: the second and a position within it
Instants == [sec : Stamps, tick : {0, 1}]
Before(t1, t2) == t1.sec < t2.sec \/ (t1.sec = t2.sec /\ t1.tick < t2.tick)
\* two moments, the first before the second
TwoMoments == {tt \in Instants \X Instants : Before(tt[1], tt[2])}
\* int(time.time()) and strftime('%Y%m%d-%H%M%S'): the second of the moment
Seconds(t) == t.sec

\* models/approved/job1-0-model.tar.gz: ApprovedKey(JobName, 0) with '-' for
\* its last '/'
DashedKey == [ApprovedKey(JobName, 0) EXCEPT ![8] = "-"]
AttemptKeys == {ApprovedKey(JobName, 0), DashedKey, ApprovedKey(JobName, 1)}

\* trigger-new-file.py: f"{BASE_NAME_MODEL}-{timestamp}"
TriggerModelName(ts) == <<"distilbert-model", "-", ToString(ts)>>

\* the model name an attempt for key at moment t derives
DeployNames(key, t) == _model_name_from_key(key, Seconds(t))

\* the approved key of an approval of job at moment t
ApprovedPath(job, t) == ApprovedKey(job, Seconds(t))

\* what the reports given to handle_model_approval are made of: an
\* evaluation of metrics against at most two thresholds, or the report
\* either evaluate_model returns for an artifact it could not read
ReportInputs ==
    {<<"evaluation", m, t>> : m \in MetricSets,
                              t \in {tt \in ThresholdSets : Len(tt) <= 2}}
    \cup {<<"evaluator_error", <<>>, <<>>>>, <<"trainer_error", <<>>, <<>>>>}

FnInputs ==
    {[fn |-> "load_evaluation_thresholds", doc |-> d] : d \in ThresholdDocs}
    \cup {[fn |-> "deploy_twice", key1 |-> k1, t1 |-> tt[1], key2 |-> k2, t2 |-> tt[2]] :
            k1 \in AttemptKeys, k2 \in AttemptKeys, tt \in TwoMoments}
    \cup {[fn |-> "approve_twice", job1 |-> j1, t1 |-> tt[1], job2 |-> j2, t2 |-> tt[2]] :
            j1 \in {JobName, "job2"}, j2 \in {JobName, "job2"}, tt \in TwoMoments}

InitFn ==
    /\ \/ fin \in FnInputs
       \/ \E m \in MetricSets, t \in ThresholdSets :
            fin = [fn |-> "evaluators", metrics |-> m, thresholds |-> t]
       \/ \E r \in ReportInputs, ts \in Stamps, co \in CopyOutcomes :
            fin = [fn |-> "approvals", report_of |-> r[1], metrics |-> r[2],
                   thresholds |-> r[3], timestamp |-> ts, copyOutcome |-> co]
    /\ fout = None
    /\ EvalUnused /\ DeployIdle /\ TrainIdle /\ RaceIdle /\ TrigIdle
    /\ snsTopic = FALSE
    /\ pubFailed = FALSE

\* thresholds = load_evaluation_thresholds(), then perform_evaluation against
\* them (evaluate_model)
F_LoadThresholds ==
    /\ fin.fn = "load_evaluation_thresholds" /\ fout = None
    /\ LET loaded == load_evaluation_thresholds(fin.doc) IN
       fout' = Some([thresholds |-> loaded,
                     report |-> perform_evaluation([k \in MetricNames |-> MaxValue],
                                                   loaded)])
    /\ UNCHANGED <<evalVars, snsTopic, pubFailed, deployVars, trainVars, raceVars, trigVars, fin>>

\* two deployment attempts: each derives its names and registers the model;
\* create_model refuses a name that is registered already
F_DeployTwice ==
    /\ fin.fn = "deploy_twice" /\ fout = None
    /\ LET n1 == DeployNames(fin.key1, fin.t1)
           n2 == DeployNames(fin.key2, fin.t2)
       IN fout' = Some([names |-> <<n1, n2>>,
                        configs |-> <<_endpoint_config_name(n1), _endpoint_config_name(n2)>>,
                        trigger_names |-> <<TriggerModelName(Seconds(fin.t1)),
                                            TriggerModelName(Seconds(fin.t2))>>,
                        registered |-> <<TRUE, n2 # n1>>])
    /\ UNCHANGED <<evalVars, snsTopic, pubFailed, deployVars, trainVars, raceVars, trigVars, fin>>

\* two successful approvals: each copies the artifact to its approved key;
\* the bucket afterwards, as the writer of the object at each key
F_ApproveTwice ==
    /\ fin.fn = "approve_twice" /\ fout = None
    /\ LET p1 == ApprovedPath(fin.job1, fin.t1)
           p2 == ApprovedPath(fin.job2, fin.t2)
       IN fout' = Some([paths |-> <<p1, p2>>,
                        bucket |-> [p \in {p1, p2} |-> IF p = p2 THEN 2 ELSE 1]])
    /\ UNCHANGED <<evalVars, snsTopic, pubFailed, deployVars, trainVars, raceVars, trigVars, fin>>

\* the three threshold evaluators applied to one pair of metrics and thresholds
F_Evaluators ==
    /\ fin.fn = "evaluators" /\ fout = None
    /\ fout' = Some([ops |-> evaluate_metrics(fin.metrics, fin.thresholds),
                     evaluator |-> perform_evaluation(fin.metrics, fin.thresholds),
                     trainer |-> TO_perform_evaluation(fin.metrics, fin.thresholds)])
    /\ UNCHANGED <<evalVars, snsTopic, pubFailed, deployVars, trainVars, raceVars, trigVars, fin>>

\* the two handle_model_approval applied to one report
F_Approvals ==
    /\ fin.fn = "approvals" /\ fout = None
    /\ LET evaluation_result ==
             CASE fin.report_of = "evaluation" ->
                    perform_evaluation(fin.metrics, fin.thresholds)
               [] fin.report_of = "evaluator_error" -> ErrorReport(MetricsNotFound)
               [] fin.report_of = "trainer_error" -> TO_ErrorReport(MetricsNotFound)
       IN fout' = Some([report |-> evaluation_result,
                        evaluator |-> handle_model_approval(ModelS3Path,
                                        evaluation_result, JobName,
                                        fin.timestamp, fin.copyOutcome),
                        trainer |-> TO_handle_model_approval(ModelS3Path,
                                      evaluation_result, JobName,
                                      fin.timestamp, fin.copyOutcome)])
    /\ UNCHANGED <<evalVars, snsTopic, pubFailed, deployVars, trainVars, raceVars, trigVars, fin>>

NextFn ==
    \/ F_LoadThresholds \/ F_DeployTwice \/ F_ApproveTwice
    \/ F_Evaluators \/ F_Approvals

SpecFn == InitFn /\ [][NextFn]_vars

----------------------------------------------------------------------------
(* Two reconciler invocations on one endpoint: describe, then create/update *)

Invocations == {1, 2}
\* the handler both invocations run
Reconcilers == {"deployment_orchestrator", "trigger-new-file"}

\* the create/update an invocation issues for what its describe returned:
\* deployment_orchestrator updates whatever status it found
\* (previous_config_name is set), trigger-new-file only InService and Failed
ReconcileOp(kind, seen) ==
    IF seen = "Absent" THEN Some("create_endpoint")
    ELSE IF kind = "deployment_orchestrator" THEN Some("update_endpoint")
    ELSE IF seen \in {"InService", "Failed"} THEN Some("update_endpoint")
    ELSE None

\* whether the control plane accepts the call for an endpoint in status st
Accepts(op, st) ==
    IF op = "create_endpoint" THEN st = "Absent"
    ELSE st \in {"InService", "Failed", "OutOfService"}

\* a create/update call as the control plane received it
EndpointCall(i, op, st) == [by |-> i, op |-> op, met |-> st, ok |-> Accepts(op, st)]

InitRace ==
    /\ EvalUnused /\ DeployIdle /\ TrainIdle /\ FnIdle /\ TrigIdle
    /\ snsTopic = FALSE
    /\ pubFailed = FALSE
    /\ rkind \in Reconcilers
    /\ rpc = [i \in Invocations |-> "describe"]
    /\ rseen = [i \in Invocations |-> "none"]
    /\ rcalls = <<>>
    /\ rstatus \in EndpointStatuses

\* describe_endpoint: the status of the moment, or not found
R_Describe(i) ==
    /\ rpc[i] = "describe"
    /\ rseen' = [rseen EXCEPT ![i] = rstatus]
    /\ rpc' = [rpc EXCEPT ![i] = "act"]
    /\ UNCHANGED <<evalVars, snsTopic, pubFailed, deployVars, trainVars, fnVars, trigVars,
                   rkind, rcalls, rstatus>>

\* the create/update chosen from what describe returned, issued against the
\* endpoint as it is now; in trigger-new-file a refused update_endpoint is
\* caught by the handler of describe's ClientError, which issues
\* create_endpoint when the code is ValidationException
R_Act(i) ==
    /\ rpc[i] = "act"
    /\ LET op == ReconcileOp(rkind, rseen[i]) IN
       IF op = None
       THEN UNCHANGED <<rcalls, rstatus>>
       ELSE LET first == EndpointCall(i, op[1], rstatus) IN
            IF first.ok
            THEN /\ rcalls' = Append(rcalls, first)
                 /\ rstatus' = IF op[1] = "create_endpoint" THEN "Creating"
                               ELSE "Updating"
            ELSE /\ rstatus' = rstatus
                 /\ \E code \in {"ValidationException", "ThrottlingException"} :
                      rcalls' =
                        IF /\ rkind = "trigger-new-file"
                           /\ op[1] = "update_endpoint"
                           /\ code = "ValidationException"
                        THEN rcalls \o <<first, EndpointCall(i, "create_endpoint", rstatus)>>
                        ELSE Append(rcalls, first)
    /\ rpc' = [rpc EXCEPT ![i] = "done"]
    /\ UNCHANGED <<evalVars, snsTopic, pubFailed, deployVars, trainVars, fnVars, trigVars,
                   rkind, rseen>>

\* the control plane finishes a transition of the endpoint
R_ControlPlane ==
    /\ rstatus \in {"Creating", "Updating"}
    /\ \E i \in Invocations : rpc[i] # "done"
    /\ rstatus' \in {"InService", "Failed"}
    /\ UNCHANGED <<evalVars, snsTopic, pubFailed, deployVars, trainVars, fnVars, trigVars,
                   rkind, rpc, rseen, rcalls>>

NextRace ==
    \/ \E i \in Invocations : R_Describe(i)
    \/ \E i \in Invocations : R_Act(i)
    \/ R_ControlPlane

SpecRace == InitRace /\ [][NextRace]_vars

----------------------------------------------------------------------------
(* lambda-function/trigger-new-file.py: lambda_handler and its garbage
   collection, two invocations acting on one account *)

Invs == {1, 2}

BASE_NAME_CONFIG == "distilbert-config"
BASE_NAME_MODEL == "distilbert-model"

\* endpoint_config_name = f"{BASE_NAME_CONFIG}-{timestamp}"
TriggerConfigName(ts) == <<BASE_NAME_CONFIG, "-", ToString(ts)>>

\* resources of earlier deployments, and resources of another project
StaleConfig == <<BASE_NAME_CONFIG, "-", "old">>
StaleModel == <<BASE_NAME_MODEL, "-", "old">>
ForeignConfig == <<"resnet-config", "-", "old">>
ForeignModel == <<"resnet-model", "-", "old">>

\* the model an endpoint config's production variant names
ModelOf(cfg_name) ==
    IF cfg_name[1] = BASE_NAME_CONFIG THEN [cfg_name EXCEPT ![1] = BASE_NAME_MODEL]
    ELSE ForeignModel

\* paginate(NameContains=base): the names of which base is a part
NameContains(name, base) == \E i \in 1..Len(name) : name[i] = base

\* the pages of a listing, as one sequence
RECURSIVE Listing(_)
Listing(names) ==
    IF names = {} THEN <<>>
    ELSE LET first == CHOOSE n \in names : TRUE
         IN <<first>> \o Listing(names \ {first})

\* EndpointStatus values describe_endpoint reports
TriggerStatuses == {"InService", "Failed", "Creating", "Updating", "OutOfService"}

\* what describe_endpoint can yield: the status, a ClientError with its code,
\* or an exception that is not a ClientError
DescribeResults(status) ==
    IF status = "Absent"
    THEN {[kind |-> "client_error", value |-> "ValidationException"],
          [kind |-> "client_error", value |-> "ResourceNotFound"]}
    ELSE {[kind |-> "status", value |-> status]}
\* throttling, and a connection that fails
DescribeFaults ==
    {[kind |-> "client_error", value |-> "ThrottlingException"],
     [kind |-> "exception", value |-> "EndpointConnectionError"]}

\* variant: an endpoint in transition is updated as well
EndpointAction_updateAlways(seen) ==
    CASE seen.kind = "status" -> "update"
      [] seen.kind = "client_error"
         /\ seen.value \in {"ValidationException", "ResourceNotFound"} -> "create"
      [] OTHER -> "raise"
\* step 4: what follows the describe_endpoint call
EndpointAction(seen) ==
    CASE seen.kind = "status" /\ seen.value \in {"InService", "Failed"} -> "update"
      [] seen.kind = "status" -> "none"
      [] seen.kind = "client_error"
         /\ seen.value \in {"ValidationException", "ResourceNotFound"} -> "create"
      [] OTHER -> "raise"

\* what a delete call yields from the state of the account: done, refused
\* as in use, or refused as not found (ClientError both)
DeleteResults(exists, referenced) ==
    IF ~exists THEN {"client_error"} ELSE IF referenced THEN {"in_use"} ELSE {"done"}
\* a ClientError of another cause, or an exception that is not a ClientError
DeleteFaults == {"client_error", "exception"}

\* calls that fail for a cause outside the account's state, at most
MaxFaults == 1
\* the outcomes of a call: those the state gives, and the faults left
Outcomes(regular, faults) == regular \cup (IF gfaults < MaxFaults THEN faults ELSE {})
\* the count of faults after a call with this outcome
Faulted(outcome, faults) == IF outcome \in faults THEN gfaults + 1 ELSE gfaults

\* variant: any failed deletion ends the loop
AfterDelete_stopOnError(outcome) ==
    IF outcome = "done" THEN "continue" ELSE "abort"
\* the loop goes on after a deletion and after a ClientError; any other
\* exception leaves the loop for the function's outer except
AfterDelete(outcome) ==
    IF outcome = "exception" THEN "abort" ELSE "continue"

\* the 200 response, 'Process started'
TriggerResponse(endpoint_config_name) ==
    [statusCode |-> 200,
     body |-> [message |-> "Process started", config |-> endpoint_config_name]]

Logged(i, entry) == [glog EXCEPT ![i] = Append(@, entry)]
At(i, pc) == [gpc EXCEPT ![i] = pc]

InitTrigger ==
    /\ EvalUnused /\ DeployIdle /\ TrainIdle /\ RaceIdle /\ FnIdle
    /\ snsTopic = FALSE /\ pubFailed = FALSE
    /\ gpc = [i \in Invs |-> "start"]
    /\ gstamp = [i \in Invs |-> None]
    /\ gseen = [i \in Invs |-> [kind |-> "none", value |-> "none"]]
    /\ gtodo = [i \in Invs |-> <<>>]
    /\ glog = [i \in Invs |-> <<>>]
    /\ gresponse = [i \in Invs |-> NoResponse]
    /\ gconfigs = {StaleConfig, ForeignConfig}
    /\ gmodels = {StaleModel, ForeignModel}
    /\ gstatus \in {"Absent"} \cup TriggerStatuses
    /\ gconfig = IF gstatus = "Absent" THEN None ELSE Some(StaleConfig)
    /\ gfaults = 0

\* timestamp = int(time.time()); sagemaker.create_model(...)
G_CreateModel(i) ==
    /\ gpc[i] = "start"
    /\ \E ts \in Stamps, fails \in Outcomes({FALSE}, {TRUE}) :
         \* the clock does not run backwards
         /\ \A j \in Invs : gstamp[j] # None => gstamp[j][1] <= ts
         /\ LET name == TriggerModelName(ts)
                ok == ~fails /\ name \notin gmodels
            IN /\ gfaults' = Faulted(fails, {TRUE})
               /\ gstamp' = [gstamp EXCEPT ![i] = Some(ts)]
               /\ glog' = Logged(i, [op |-> "create_model", name |-> name,
                                     outcome |-> IF ok THEN "ok" ELSE "error"])
               /\ gmodels' = IF ok THEN gmodels \cup {name} ELSE gmodels
               /\ gpc' = At(i, IF ok THEN "create_config" ELSE "raised")
    /\ UNCHANGED <<evalVars, snsTopic, pubFailed, deployVars, trainVars, raceVars,
                   fnVars, gseen, gtodo, gresponse, gconfigs, gstatus, gconfig>>

\* sagemaker.create_endpoint_config(...)
G_CreateConfig(i) ==
    /\ gpc[i] = "create_config"
    /\ \E fails \in Outcomes({FALSE}, {TRUE}) :
         LET name == TriggerConfigName(gstamp[i][1])
             ok == ~fails /\ name \notin gconfigs
         IN /\ gfaults' = Faulted(fails, {TRUE})
            /\ glog' = Logged(i, [op |-> "create_endpoint_config", name |-> name,
                                  outcome |-> IF ok THEN "ok" ELSE "error"])
            /\ gconfigs' = IF ok THEN gconfigs \cup {name} ELSE gconfigs
            /\ gpc' = At(i, IF ok THEN "describe" ELSE "raised")
    /\ UNCHANGED <<evalVars, snsTopic, pubFailed, deployVars, trainVars, raceVars,
                   fnVars, gstamp, gseen, gtodo, gresponse, gmodels, gstatus, gconfig>>

\* desc = sagemaker.describe_endpoint(EndpointName=ENDPOINT_NAME)
G_Describe(i) ==
    /\ gpc[i] = "describe"
    /\ \E seen \in Outcomes(DescribeResults(gstatus), DescribeFaults) :
         /\ gseen' = [gseen EXCEPT ![i] = seen]
         /\ gfaults' = Faulted(seen, DescribeFaults)
    /\ gpc' = At(i, "act")
    /\ UNCHANGED <<evalVars, snsTopic, pubFailed, deployVars, trainVars, raceVars,
                   fnVars, gstamp, gtodo, glog, gresponse, gconfigs, gmodels,
                   gstatus, gconfig>>

\* the branch on the status or on the error code: update_endpoint,
\* create_endpoint, nothing, or raise e
G_Act(i) ==
    /\ gpc[i] = "act"
    /\ LET cfg == TriggerConfigName(gstamp[i][1])
           call(op, outcome) == [op |-> op, name |-> cfg, outcome |-> outcome,
                                 existed |-> cfg \in gconfigs]
           creatable == gstatus = "Absent" /\ cfg \in gconfigs
           updatable == gstatus \in {"InService", "Failed"} /\ cfg \in gconfigs
       IN CASE EndpointAction(gseen[i]) = "none" ->
                 /\ gpc' = At(i, "list_configs")
                 /\ UNCHANGED <<glog, gstatus, gconfig, gfaults>>
            [] EndpointAction(gseen[i]) = "raise" ->
                 /\ gpc' = At(i, "raised")
                 /\ UNCHANGED <<glog, gstatus, gconfig, gfaults>>
            [] EndpointAction(gseen[i]) = "create" ->
                 \E fails \in Outcomes({FALSE}, {TRUE}) :
                   LET ok == ~fails /\ creatable IN
                   /\ gfaults' = Faulted(fails, {TRUE})
                   /\ glog' = Logged(i, call("create_endpoint",
                                             IF ok THEN "ok" ELSE "error"))
                   /\ gstatus' = IF ok THEN "Creating" ELSE gstatus
                   /\ gconfig' = IF ok THEN Some(cfg) ELSE gconfig
                   /\ gpc' = At(i, IF ok THEN "list_configs" ELSE "raised")
            [] EndpointAction(gseen[i]) = "update" ->
                 \E fails \in Outcomes({FALSE}, {TRUE}) :
                   /\ gfaults' = Faulted(fails, {TRUE})
                   /\ IF ~fails /\ updatable
                      THEN /\ glog' = Logged(i, call("update_endpoint", "ok"))
                           /\ gstatus' = "Updating"
                           /\ gconfig' = Some(cfg)
                           /\ gpc' = At(i, "list_configs")
                      ELSE IF fails
                      THEN \* an error code other than the two: raise e
                           /\ glog' = Logged(i, call("update_endpoint", "error"))
                           /\ gpc' = At(i, "raised")
                           /\ UNCHANGED <<gstatus, gconfig>>
                      ELSE \* ValidationException of update_endpoint, caught by
                           \* the same except: create_endpoint, which is
                           \* refused for an endpoint that exists
                           /\ glog' = [glog EXCEPT ![i] =
                                         @ \o <<call("update_endpoint", "refused"),
                                                call("create_endpoint", "error")>>]
                           /\ gpc' = At(i, "raised")
                           /\ UNCHANGED <<gstatus, gconfig>>
    /\ UNCHANGED <<evalVars, snsTopic, pubFailed, deployVars, trainVars, raceVars,
                   fnVars, gstamp, gseen, gtodo, gresponse, gconfigs, gmodels>>

\* cleanup_old_configs: the listing, less the config to keep
G_ListConfigs(i) ==
    /\ gpc[i] = "list_configs"
    /\ \E listed \in Outcomes({TRUE}, {FALSE}) :
         LET keep_config_name == TriggerConfigName(gstamp[i][1])
             page == Listing({n \in gconfigs : NameContains(n, BASE_NAME_CONFIG)})
             todo == SelectSeq(page, LAMBDA n : n # keep_config_name)
         IN /\ gfaults' = Faulted(listed, {FALSE})
            /\ glog' = Logged(i, [op |-> "list_endpoint_configs", name |-> page,
                                  outcome |-> IF listed THEN "ok" ELSE "exception"])
            /\ gtodo' = [gtodo EXCEPT ![i] = IF listed THEN todo ELSE <<>>]
            /\ gpc' = At(i, IF listed /\ todo # <<>> THEN "delete_configs"
                            ELSE "list_models")
    /\ UNCHANGED <<evalVars, snsTopic, pubFailed, deployVars, trainVars, raceVars,
                   fnVars, gstamp, gseen, gresponse, gconfigs, gmodels, gstatus,
                   gconfig>>

\* cleanup_old_configs: one delete_endpoint_config of the loop
G_DeleteConfig(i) ==
    /\ gpc[i] = "delete_configs"
    /\ LET cfg_name == Head(gtodo[i]) IN
       \E outcome \in Outcomes(DeleteResults(cfg_name \in gconfigs,
                                              gconfig = Some(cfg_name)),
                                DeleteFaults) :
         LET rest == IF AfterDelete(outcome) = "abort" THEN <<>>
                     ELSE Tail(gtodo[i])
         IN /\ gfaults' = Faulted(outcome, DeleteFaults)
            /\ glog' = Logged(i, [op |-> "delete_endpoint_config",
                                  name |-> cfg_name, outcome |-> outcome])
            /\ gconfigs' = IF outcome = "done" THEN gconfigs \ {cfg_name}
                           ELSE gconfigs
            /\ gtodo' = [gtodo EXCEPT ![i] = rest]
            /\ gpc' = At(i, IF rest = <<>> THEN "list_models" ELSE "delete_configs")
    /\ UNCHANGED <<evalVars, snsTopic, pubFailed, deployVars, trainVars, raceVars,
                   fnVars, gstamp, gseen, gresponse, gmodels, gstatus, gconfig>>

\* cleanup_old_models: the listing, less the model to keep; with nothing to
\* delete the handler returns
G_ListModels(i) ==
    /\ gpc[i] = "list_models"
    /\ \E listed \in Outcomes({TRUE}, {FALSE}) :
         LET keep_model_name == TriggerModelName(gstamp[i][1])
             page == Listing({n \in gmodels : NameContains(n, BASE_NAME_MODEL)})
             todo == SelectSeq(page, LAMBDA n : n # keep_model_name)
             returns == ~listed \/ todo = <<>>
         IN /\ gfaults' = Faulted(listed, {FALSE})
            /\ glog' = Logged(i, [op |-> "list_models", name |-> page,
                                  outcome |-> IF listed THEN "ok" ELSE "exception"])
            /\ gtodo' = [gtodo EXCEPT ![i] = IF listed THEN todo ELSE <<>>]
            /\ gpc' = At(i, IF returns THEN "done" ELSE "delete_models")
            /\ gresponse' = IF returns
                            THEN [gresponse EXCEPT ![i] =
                                    TriggerResponse(TriggerConfigName(gstamp[i][1]))]
                            ELSE gresponse
    /\ UNCHANGED <<evalVars, snsTopic, pubFailed, deployVars, trainVars, raceVars,
                   fnVars, gstamp, gseen, gconfigs, gmodels, gstatus, gconfig>>

\* cleanup_old_models: one delete_model of the loop; after the last one the
\* handler returns
G_DeleteModel(i) ==
    /\ gpc[i] = "delete_models"
    /\ LET mdl_name == Head(gtodo[i]) IN
       \E outcome \in Outcomes(DeleteResults(mdl_name \in gmodels,
                                              \E c \in gconfigs : ModelOf(c) = mdl_name),
                                DeleteFaults) :
         LET rest == IF AfterDelete(outcome) = "abort" THEN <<>>
                     ELSE Tail(gtodo[i])
         IN /\ gfaults' = Faulted(outcome, DeleteFaults)
            /\ glog' = Logged(i, [op |-> "delete_model", name |-> mdl_name,
                                  outcome |-> outcome])
            /\ gmodels' = IF outcome = "done" THEN gmodels \ {mdl_name} ELSE gmodels
            /\ gtodo' = [gtodo EXCEPT ![i] = rest]
            /\ gpc' = At(i, IF rest = <<>> THEN "done" ELSE "delete_models")
            /\ gresponse' = IF rest = <<>>
                            THEN [gresponse EXCEPT ![i] =
                                    TriggerResponse(TriggerConfigName(gstamp[i][1]))]
                            ELSE gresponse
    /\ UNCHANGED <<evalVars, snsTopic, pubFailed, deployVars, trainVars, raceVars,
                   fnVars, gstamp, gseen, gconfigs, gstatus, gconfig>>

\* the endpoint leaves a transition
G_ControlPlane ==
    /\ gstatus \in {"Creating", "Updating"}
    /\ gstatus' \in {"InService", "Failed"}
    /\ UNCHANGED <<evalVars, snsTopic, pubFailed, deployVars, trainVars, raceVars,
                   fnVars, gpc, gstamp, gseen, gtodo, glog, gresponse, gconfigs,
                   gmodels, gconfig, gfaults>>

NextTrigger ==
    \/ \E i \in Invs :
         \/ G_CreateModel(i) \/ G_CreateConfig(i) \/ G_Describe(i) \/ G_Act(i)
         \/ G_ListConfigs(i) \/ G_DeleteConfig(i)
         \/ G_ListModels(i) \/ G_DeleteModel(i)
    \/ G_ControlPlane

SpecTrigger == InitTrigger /\ [][NextTrigger]_vars

----------------------------------------------------------------------------
(* Properties of the threshold evaluator and the approval workflow. *)

\* report is a report of perform_evaluation(metrics, thresholds)
Evaluated == epc # "start" /\ "error" \notin DOMAIN report
\* handle_model_approval has returned
Decided == epc \in {"notify", "done"}
\* the promotion copy was issued and did not fail
CopySucceeded == \E i \in 1..Len(copyCalls) : copyCalls[i].outcome = "ok"
\* the single comparison of a metric present in both mappings
Meets(k) == metrics[k] >= Get(thresholds, k)
MissingKeys == Keys(thresholds) \ DOMAIN metrics

\* C1: perform_evaluation(m, t).passed is true iff every key of t is in m with
\* m[k] >= t[k] (equality passes), and for every key in both, results[k].passed
\* and results[k].status are the outcome of that one comparison.
C1_AllOrNothing ==
    Evaluated =>
      /\ report.passed <=>
           \A k \in Keys(thresholds) : k \in DOMAIN metrics /\ Meets(k)
      /\ \A k \in Keys(thresholds) \cap DOMAIN metrics :
           /\ HasKey(report.results, k)
           /\ Get(report.results, k).passed = Meets(k)
           /\ Get(report.results, k).status = IF Meets(k) THEN "pass" ELSE "fail"

\* a report that passes with a metric exactly equal to its threshold
C1_Witness ==
    /\ Evaluated /\ report.passed /\ Len(thresholds) >= 2
    /\ \E k \in Keys(thresholds) : metrics[k] = Get(thresholds, k)
    /\ \E k \in Keys(thresholds) : metrics[k] > Get(thresholds, k)

\* C2: every threshold key absent from the metrics gets a results entry with
\* status 'missing', value None and passed false, is counted in failed_checks
\* and makes the report fail; results has exactly the keys of thresholds.
C2_MissingFails ==
    Evaluated =>
      /\ Keys(report.results) = Keys(thresholds)
      /\ Len(report.results) = Len(thresholds)
      /\ \A k \in MissingKeys :
           /\ Get(report.results, k).status = "missing"
           /\ Get(report.results, k).value = None
           /\ Get(report.results, k).passed = FALSE
           /\ report.passed = FALSE
      /\ report.summary.failed_checks =
           Cardinality(MissingKeys)
           + Cardinality({k \in Keys(thresholds) \cap DOMAIN metrics : ~Meets(k)})

\* a report with a missing metric next to a metric that passes
C2_Witness ==
    /\ Evaluated /\ MissingKeys # {}
    /\ \E k \in Keys(thresholds) \cap DOMAIN metrics : Meets(k)
    /\ DOMAIN metrics \ Keys(thresholds) # {}

\* C3: total_checks is the number of threshold keys, passed_checks +
\* failed_checks = total_checks, pass_rate = passed_checks / total_checks
\* (0 when there are no checks), and passed iff failed_checks = 0.
C3_SummaryConsistent ==
    Evaluated =>
      LET sm == report.summary IN
      /\ sm.total_checks = Cardinality(Keys(thresholds))
      /\ sm.passed_checks + sm.failed_checks = sm.total_checks
      /\ sm.passed_checks =
           Cardinality({k \in Keys(thresholds) \cap DOMAIN metrics : Meets(k)})
      /\ sm.pass_rate[2] > 0
      /\ IF sm.total_checks = 0 THEN sm.pass_rate[1] = 0
         ELSE sm.pass_rate[1] * sm.total_checks = sm.passed_checks * sm.pass_rate[2]
      /\ report.passed <=> sm.failed_checks = 0

\* a report with a passing, a failing and a missing metric
C3_Witness ==
    /\ Evaluated /\ MissingKeys # {}
    /\ \E k \in Keys(thresholds) \cap DOMAIN metrics : Meets(k)
    /\ \E k \in Keys(thresholds) \cap DOMAIN metrics : ~Meets(k)

\* C4: with no thresholds the report has passed = true, no results,
\* total_checks = 0 and pass_rate = 0, whatever the metrics are.
C4_EmptyThresholds ==
    (Evaluated /\ thresholds = <<>>) =>
      /\ report.passed = TRUE
      /\ report.results = <<>>
      /\ report.summary.total_checks = 0
      /\ report.summary.pass_rate = Zero

\* an evaluation of a non-empty metric mapping against no thresholds
C4_Witness == Evaluated /\ thresholds = <<>> /\ DOMAIN metrics # {}

\* C5: if perform_evaluation(m, t) passes and m' has the keys of m with
\* m'[k] >= m[k] for every k, then perform_evaluation(m', t) passes.
C5_Monotone ==
    epc = "compared" => (report.passed => raisedReport.passed)

\* a passing report whose metrics were then strictly raised
C5_Witness ==
    /\ epc = "compared" /\ report.passed /\ thresholds # <<>>
    /\ \E k \in DOMAIN metrics \cap Keys(thresholds) :
         /\ metrics[k] = Get(thresholds, k)
         /\ raised[k] > metrics[k]

\* C6: handle_model_approval issues exactly one copy call when report.passed
\* (no retry, whether the copy succeeds or fails) and none when it is false.
C6_OneCopyOrNone ==
    /\ ~Decided => copyCalls = <<>>
    /\ Decided => Len(copyCalls) = IF report.passed THEN 1 ELSE 0

\* a passed report whose promotion copy failed
C6_Witness ==
    /\ Decided /\ report.passed /\ ~CopySucceeded /\ Len(copyCalls) = 1

\* C7: approved iff report.passed and the copy succeeded; approved_path is
\* present iff approved; in the handler's response approved_model_path is
\* non-null iff model_approved.
C7_ApprovedIff ==
    /\ Decided =>
         /\ decision.approved <=> (report.passed /\ CopySucceeded)
         /\ ("approved_path" \in DOMAIN decision) <=> decision.approved
    /\ (epc = "done" /\ eresponse.statusCode = 200) =>
         /\ eresponse.body.model_approved = decision.approved
         /\ (eresponse.body.approved_model_path # None)
              <=> eresponse.body.model_approved

\* the handler answered for a passed report whose copy failed
C7_Witness ==
    /\ epc = "done" /\ eresponse.statusCode = 200
    /\ report.passed /\ ~CopySucceeded /\ ~eresponse.body.model_approved

\* C8: a failed copy of a passed report does not raise: the decision has
\* approved = false, an error field with the underlying error and a message
\* other than the evaluation-failure one; an evaluation-failure decision has
\* failed_metrics and no error field.
C8_CopyFailureDistinct ==
    /\ epc = "done" => eresponse.statusCode = 200
    /\ (Decided /\ report.passed /\ ~CopySucceeded) =>
         /\ decision.approved = FALSE
         /\ "error" \in DOMAIN decision
         /\ decision.error[2] = copyCalls[1].outcome
         /\ decision.message # MsgEvalFailed
         /\ "failed_metrics" \notin DOMAIN decision
    /\ (Decided /\ ~report.passed) =>
         /\ decision.approved = FALSE
         /\ "failed_metrics" \in DOMAIN decision
         /\ "error" \notin DOMAIN decision
         /\ decision.message = MsgEvalFailed

\* the handler finished after the copy of a passed report was throttled
C8_Witness ==
    /\ epc = "done" /\ report.passed
    /\ Len(copyCalls) = 1 /\ copyCalls[1].outcome = "SlowDown"

\* C9: when report.passed is false, failed_metrics lists exactly the names
\* whose results entry has passed = false ('fail' and 'missing'), once each,
\* in the order of results, which is the order of thresholds.
C9_FailedMetricsExact ==
    (Decided /\ ~report.passed) =>
      LET fm == decision.failed_metrics
          res == report.results
      IN /\ Injective(fm)
         /\ {fm[i] : i \in 1..Len(fm)} = {k \in Keys(res) : ~Get(res, k).passed}
         /\ \A i, j \in 1..Len(fm) :
              i < j => IndexOf(res, fm[i]) < IndexOf(res, fm[j])
         /\ Evaluated => KeySeq(res) = KeySeq(thresholds)

\* a failed report with a missing metric before a failing one and a passing one
C9_Witness ==
    /\ Decided /\ Evaluated /\ Len(report.results) = 3
    /\ report.results[1][2].status = "missing"
    /\ report.results[2][2].status = "pass"
    /\ report.results[3][2].status = "fail"
    /\ Len(decision.failed_metrics) = 2

----------------------------------------------------------------------------
(* Properties of the deployment orchestrator. *)

\* the calls of this invocation with the given operation
CallsOf(op) == SelectSeq(calls, LAMBDA c : c.op = op)
\* the step-4 describe reported that the endpoint does not exist
NotFoundReported ==
    describeResult.kind = "Error" /\ IsNotFound(describeResult.error)
\* step 5 is behind the handler
PastUpsert == dpc \in {"health", "checked", "rolled", "done"}

\* C10: when the step-4 describe reports the endpoint as not found, the
\* attempt issues create_endpoint with the new endpoint config exactly once
\* and never issues update_endpoint.
C10_NotFoundCreates ==
    NotFoundReported =>
      /\ CallsOf("update_endpoint") = <<>>
      /\ Len(CallsOf("create_endpoint")) = IF PastUpsert THEN 1 ELSE 0
      /\ \A i \in 1..Len(CallsOf("create_endpoint")) :
           CallsOf("create_endpoint")[i].name = _endpoint_config_name(model_name[1])

\* an attempt that created the endpoint, failed its health check and returned
C10_Witness ==
    /\ NotFoundReported /\ dpc = "done" /\ healthy = Some(FALSE)
    /\ Len(CallsOf("create_endpoint")) = 1

----------------------------------------------------------------------------
(* Properties of the deployment orchestrator's endpoint reconciliation. *)

\* the step-4 describe found the endpoint at rest, InService or Failed
FoundAtRest ==
    /\ describeResult.kind = "Found"
    /\ describeResult.status \in {"InService", "Failed"}

\* the endpoint config this invocation created
NewConfig == _endpoint_config_name(model_name[1])

\* the update_endpoint calls of this invocation that name config n
UpdatesNaming(n) ==
    SelectSeq(calls, LAMBDA c : c.op = "update_endpoint" /\ c.name = n)

\* C11: when the step-4 describe reports an existing endpoint with status
\* InService or Failed and config P, the attempt issues update_endpoint with
\* the new config exactly once, never issues create_endpoint, and keeps P
\* (the config the endpoint had) as previous_config_name from then on; no
\* update names anything but the new config or P.
C11_FoundUpdates ==
    FoundAtRest =>
      /\ CallsOf("create_endpoint") = <<>>
      /\ Len(UpdatesNaming(NewConfig)) = IF PastUpsert THEN 1 ELSE 0
      /\ describeResult.config = OldConfig
      /\ previous_config_name = Some(OldConfig)
      /\ \A i \in 1..Len(CallsOf("update_endpoint")) :
           CallsOf("update_endpoint")[i].name \in {NewConfig, OldConfig}

\* an attempt that found the endpoint Failed, updated it, failed its health
\* check, rolled back and returned
C11_Witness ==
    /\ FoundAtRest /\ describeResult.status = "Failed"
    /\ dpc = "done" /\ healthy = Some(FALSE)
    /\ Len(CallsOf("update_endpoint")) = 2

\* the step-4 describe found the endpoint in transition
FoundInTransition ==
    /\ describeResult.kind = "Found"
    /\ describeResult.status \in {"Creating", "Updating"}

\* C12: when the step-4 describe reports status Creating or Updating, the
\* attempt issues neither create_endpoint nor update_endpoint, polls no
\* health check, rolls nothing back, and returns a success (200) outcome.
C12_SkipInTransition ==
    FoundInTransition =>
      /\ CallsOf("create_endpoint") = <<>>
      /\ CallsOf("update_endpoint") = <<>>
      /\ polls = <<>> /\ healthy = None
      /\ dpc = "done" => dresponse.statusCode = 200

\* what the handler does instead: it issues update_endpoint with the new
\* config whatever status the describe reported
C12_UpdatesInTransition ==
    (FoundInTransition /\ PastUpsert) =>
      /\ Len(UpdatesNaming(NewConfig)) = 1
      /\ CallsOf("create_endpoint") = <<>>

\* an attempt that found the endpoint Updating, had its update_endpoint
\* refused and returned 500
C12_Witness ==
    /\ FoundInTransition /\ describeResult.status = "Updating"
    /\ dpc = "done" /\ dresponse.statusCode = 500
    /\ Len(CallsOf("update_endpoint")) = 1 /\ ~calls[Len(calls)].ok

\* the health check of this invocation failed and rollback has run
RollbackRan == dpc \in {"rolled", "done"} /\ healthy = Some(FALSE)

\* C13: once the health check failed and _rollback_deployment ran, an attempt
\* on the update path has issued exactly two update_endpoint calls, the new
\* config and then the config captured before the update, and no create; an
\* attempt on the create path has issued one create_endpoint and no
\* update_endpoint at all.  Either way the handler returns 500.
C13_RollbackOnlyWithPrior ==
    RollbackRan =>
      /\ IF previous_config_name # None
         THEN /\ Len(CallsOf("update_endpoint")) = 2
              /\ CallsOf("update_endpoint")[1].name = NewConfig
              /\ CallsOf("update_endpoint")[2].name = previous_config_name[1]
              /\ previous_config_name[1] = describeResult.config
              /\ calls[Len(calls)] = CallsOf("update_endpoint")[2]
              /\ CallsOf("create_endpoint") = <<>>
         ELSE /\ CallsOf("update_endpoint") = <<>>
              /\ Len(CallsOf("create_endpoint")) = 1
              /\ calls[Len(calls)].op = "describe_endpoint"
      /\ dpc = "done" => dresponse.statusCode = 500

\* an attempt on the update path whose health check timed out and whose
\* rollback call was refused, after it returned
C13_Witness ==
    /\ dpc = "done" /\ healthy = Some(FALSE) /\ previous_config_name # None
    /\ Len(polls) = MaxWaitTime \div PollInterval
    /\ polls[Len(polls)].saw = "Updating"
    /\ Len(CallsOf("update_endpoint")) = 2 /\ ~calls[Len(calls)].ok

\* an attempt on the create path whose health check failed, after it returned
C13_WitnessCreate ==
    /\ dpc = "done" /\ healthy = Some(FALSE) /\ previous_config_name = None
    /\ polls # <<>> /\ polls[Len(polls)].saw = "Failed"

----------------------------------------------------------------------------
(* Properties of _verify_endpoint_health. *)

\* what a poll can observe that ends the health check
EndsPolling == {"InService", "Failed", "OutOfService", "Error"}

LastPoll == polls[Len(polls)]

\* C14: _verify_endpoint_health returns True at the first poll that observes
\* InService and False at the first poll that observes Failed or OutOfService
\* (or an error); every earlier poll observed another status and was followed
\* by the next poll one sleep interval later; polls happen only before the
\* timeout has elapsed, so there are at most MaxWaitTime / PollInterval of
\* them; and when no poll ended the check, it returns False once MaxWaitTime
\* seconds have elapsed and not before.
C14_HealthPolling ==
    /\ \A i \in 1..Len(polls) :
         /\ 0 <= polls[i].at - start_time
         /\ polls[i].at - start_time < MaxWaitTime
    /\ \A i \in 1..(Len(polls) - 1) :
         /\ polls[i].saw \notin EndsPolling
         /\ polls[i + 1].at - polls[i].at >= PollInterval
         /\ polls[i + 1].at - polls[i].at <= PollInterval + MaxJitter
    /\ Len(polls) * PollInterval <= MaxWaitTime + PollInterval - 1
    /\ polls # <<>> =>
         /\ LastPoll.saw = "InService" => healthy = Some(TRUE)
         /\ LastPoll.saw \in {"Failed", "OutOfService", "Error"} => healthy = Some(FALSE)
         /\ (LastPoll.saw \notin EndsPolling /\ dpc = "health") =>
              /\ healthy = None
              /\ clock - LastPoll.at >= PollInterval
    /\ healthy = Some(TRUE) => polls # <<>> /\ LastPoll.saw = "InService"
    /\ healthy = Some(FALSE) =>
         \/ polls # <<>> /\ LastPoll.saw \in {"Failed", "OutOfService", "Error"}
         \/ /\ clock - start_time >= MaxWaitTime
            /\ polls # <<>> /\ LastPoll.saw \notin EndsPolling
    /\ healthy = None => dpc \notin {"checked", "rolled"}

\* a health check after create_endpoint that polled the maximal number of
\* times, observed Creating each time, and timed out
C14_Witness ==
    /\ healthy = Some(FALSE) /\ dpc = "checked"
    /\ Len(polls) = MaxWaitTime \div PollInterval
    /\ \A i \in 1..Len(polls) : polls[i].saw = "Creating"
    /\ clock - start_time >= MaxWaitTime

\* a health check that ended at a poll observing OutOfService
C14_WitnessOutOfService ==
    /\ healthy = Some(FALSE) /\ Len(polls) > 1 /\ LastPoll.saw = "OutOfService"

----------------------------------------------------------------------------
(* Properties of the deployment handler's outcomes and notifications. *)

\* the event yields a bucket and a key, and the key is not under
\* 'models/approved/'
NonApprovedEvent ==
    LET ex == ExtractEvent(event) IN
      /\ ex.raised = None /\ ex.bucket # None /\ ex.key # None
      /\ ~(Len(ex.key[1]) >= 4 /\ ex.key[1][1] = "models" /\ ex.key[1][2] = "/"
             /\ ex.key[1][3] = "approved" /\ ex.key[1][4] = "/")

\* C15: for an event whose key does not start with 'models/approved/', the
\* invocation never issues a call (no download, create_model,
\* create_endpoint_config, describe, create or update of the endpoint),
\* never polls, never publishes a notification, and returns 200 'ignored'
\* in its first step.
C15_NonApprovedIgnored ==
    NonApprovedEvent =>
      /\ calls = <<>> /\ dnotes = <<>> /\ polls = <<>>
      /\ model_name = None /\ healthy = None
      /\ dpc \in {"start", "done"}
      /\ dpc = "done" => dresponse = Response(200, "ignored")

\* the handler has returned for a key that misses the prefix by its last
\* character only
C15_Witness ==
    /\ dpc = "done" /\ event.format = "Records" /\ event.hasS3Record
    /\ event.wellFormed /\ event.key = NearKey
    /\ dresponse.statusCode = 200

\* the artifact is one _validate_model_artifact rejects, and validation ran
ValidationFailed ==
    /\ artifact \in {"empty", "corrupt", "unreadable"}
    /\ calls # <<>>

ValidationSubject == "Model Deployment Failed - Validation Error"

\* the one call of a failed validation: the artifact download
OnlyDownload ==
    /\ Len(calls) = 1 /\ calls[1].op = "download_file"
    /\ calls[1].name = ExtractEvent(event).key[1]

\* C16 as stated: a failed validation returns 400, publishes the
\* validation-failure notification, issues no call but the single artifact
\* download, and is not retried.
C16_ValidationFailureNotifies ==
    ValidationFailed =>
      /\ dpc = "done" /\ dresponse = Response(400, "validation failed")
      /\ OnlyDownload
      /\ dnotes = <<ValidationSubject>>

\* C16, amended: a failed validation returns 400, issues no call but the
\* single artifact download (no create_model, create_endpoint_config,
\* describe, create or update of the endpoint; no second download), and
\* publishes exactly the validation-failure notification when SNS_TOPIC_ARN
\* is configured, and nothing when it is not.
C16_ValidationFailure ==
    ValidationFailed =>
      /\ dpc = "done" /\ dresponse = Response(400, "validation failed")
      /\ OnlyDownload
      /\ model_name = None /\ polls = <<>> /\ healthy = None
      /\ dnotes = IF snsTopic THEN <<ValidationSubject>> ELSE <<>>

\* a corrupt artifact was rejected and reported with a topic configured
C16_Witness ==
    /\ ValidationFailed /\ artifact = "corrupt" /\ snsTopic
    /\ dpc = "done" /\ dnotes = <<ValidationSubject>>

EndpointOps == {"create_endpoint", "update_endpoint"}
CreationOps == {"create_model", "create_endpoint_config"}

\* C17: every create_endpoint or update_endpoint call of an invocation comes
\* after a create_model call and a later create_endpoint_config call that
\* both returned; and when create_model or create_endpoint_config raised,
\* that call is the last one of the invocation, which has returned 500
\* without any endpoint create, update or rollback and without a health check.
C17_EndpointAfterCreations ==
    /\ \A i \in 1..Len(calls) :
         calls[i].op \in EndpointOps =>
           \E j \in 1..i : \E k \in j..i :
             /\ j < k /\ k < i
             /\ calls[j].op = "create_model" /\ calls[j].ok
             /\ calls[j].name = model_name[1]
             /\ calls[k].op = "create_endpoint_config" /\ calls[k].ok
             /\ calls[k].name = NewConfig
    /\ \A j \in 1..Len(calls) :
         (calls[j].op \in CreationOps /\ ~calls[j].ok) =>
           /\ j = Len(calls)
           /\ dpc = "done" /\ dresponse = Response(500, "unhandled")
           /\ \A i \in 1..Len(calls) : calls[i].op \notin EndpointOps
           /\ polls = <<>> /\ healthy = None

\* create_endpoint_config raised after create_model returned, and the
\* handler returned
C17_Witness ==
    /\ dpc = "done" /\ Len(calls) = 3
    /\ calls[2].op = "create_model" /\ calls[2].ok
    /\ calls[3].op = "create_endpoint_config" /\ ~calls[3].ok
    /\ dresponse.statusCode = 500

\* how the invocation ended, once it has returned
Outcome ==
    IF dpc # "done" THEN "Running"
    ELSE CASE dresponse.kind = "ignored" -> "Ignored"
           [] dresponse.kind = "no bucket/key" -> "BadEvent"
           [] dresponse.kind = "validation failed" -> "ValidationFailed"
           [] dresponse.kind = "deployed" -> "Succeeded"
           [] dresponse.kind = "health check failed" ->
                IF previous_config_name # None THEN "RolledBack"
                ELSE "FailedNoRollback"
           [] dresponse.kind = "unhandled" ->
                IF calls = <<>> THEN "MalformedEvent"
                ELSE IF calls[Len(calls)].op \in EndpointOps THEN "EndpointError"
                ELSE "SystemError"

\* C18, for an invocation with SNS_TOPIC_ARN configured: an attempt that
\* ended in success, validation failure, model or config creation failure,
\* endpoint create/update error or health-check failure has published
\* exactly one notification.
C18_ExactlyOneNotification ==
    (snsTopic /\ Outcome \in TerminalOutcomes) => Len(dnotes) = 1

\* what the handler does instead: two notifications after an endpoint
\* create/update error, one after every other such outcome, and none at all
\* when no topic is configured
C18_NotificationCount ==
    Outcome \in TerminalOutcomes =>
      Len(dnotes) = IF ~snsTopic THEN 0
                    ELSE IF Outcome = "EndpointError" THEN 2 ELSE 1

\* update_endpoint was refused and the handler returned after publishing
\* both the endpoint-error and the system-error notification
C18_Witness ==
    /\ snsTopic /\ Outcome = "EndpointError"
    /\ calls[Len(calls)].op = "update_endpoint"
    /\ dnotes = <<"Model Deployment Failed - Endpoint Error",
                  "Model Deployment Failed - System Error">>

\* C19, its particular case: after a failed health check, the subject the
\* handler notifies with and the response it returns differ from the ones
\* it uses for the other health-failure outcome (RolledBack when there is a
\* prior config, FailedNoRollback when there is none).
C19_RollbackDistinguishable ==
    Outcome \in {"RolledBack", "FailedNoRollback"} =>
      LET other == IF Outcome = "RolledBack" THEN "FailedNoRollback"
                   ELSE "RolledBack"
          otherPrev == IF previous_config_name # None THEN None
                       ELSE Some(OldConfig)
      IN /\ dresponse = HealthFailedResponse(previous_config_name)
         /\ Subjects(Outcome) # Subjects(other)
         /\ dresponse # HealthFailedResponse(otherPrev)

\* what the handler does instead: one subject and one response for both
\* health-failure outcomes, the response saying a rollback was attempted
C19_HealthFailureUniform ==
    Outcome \in {"RolledBack", "FailedNoRollback"} =>
      /\ snsTopic => dnotes = <<"Model Deployment Failed - Health Check">>
      /\ dresponse = [statusCode |-> 500, kind |-> "health check failed",
                      rollback_attempted |-> TRUE]

\* a health failure with no prior config, reported with a topic configured
C19_Witness ==
    /\ Outcome = "FailedNoRollback" /\ snsTopic
    /\ CallsOf("update_endpoint") = <<>>
    /\ dresponse.rollback_attempted

\* a health failure with a prior config, reported with a topic configured
C19_WitnessRolledBack ==
    /\ Outcome = "RolledBack" /\ snsTopic
    /\ Len(CallsOf("update_endpoint")) = 2

HealthSubject == "Model Deployment Failed - Health Check"

\* C20 as stated: when the handler has returned after a failed health check,
\* it has published the health-check notification.
C20_HealthFailureNotifies ==
    (dpc = "done" /\ healthy = Some(FALSE)) => dnotes = <<HealthSubject>>

\* C20, amended: a failed health check is always followed by the rollback
\* step and then by the notification step before the handler returns 500;
\* the handler has then published exactly the health-check notification
\* when SNS_TOPIC_ARN is configured and nothing when it is not, whether or
\* not there was a prior config and whether or not the rollback call failed.
C20_HealthFailureNotified ==
    healthy = Some(FALSE) =>
      /\ dpc \in {"checked", "rolled", "done"}
      /\ dpc # "done" => dnotes = <<>>
      /\ dpc = "done" =>
           /\ dnotes = IF snsTopic THEN <<HealthSubject>> ELSE <<>>
           /\ dresponse = HealthFailedResponse(previous_config_name)

\* the rollback call was refused, and the handler still published the
\* health-check notification before it returned
C20_Witness ==
    /\ dpc = "done" /\ healthy = Some(FALSE) /\ snsTopic
    /\ calls[Len(calls)].op = "update_endpoint" /\ ~calls[Len(calls)].ok
    /\ Len(CallsOf("update_endpoint")) = 2
    /\ dnotes = <<HealthSubject>>

\* there was no prior config, and the handler still published the
\* health-check notification before it returned
C20_WitnessNoPrior ==
    /\ dpc = "done" /\ healthy = Some(FALSE) /\ snsTopic
    /\ previous_config_name = None
    /\ dnotes = <<HealthSubject>>

----------------------------------------------------------------------------
(* Properties of the reconciler under describe failures and concurrency. *)

\* the step-4 describe failed with an error other than 'not found'
OtherErrorReported ==
    /\ describeResult.kind = "Error"
    /\ ~IsNotFound(describeResult.error)

\* C22: create_endpoint is issued only after the step-4 describe reported
\* 'not found'; after a describe that failed in any other way the attempt
\* issues neither create_endpoint nor update_endpoint and ends in failure.
C22_CreateOnlyOnNotFound ==
    /\ CallsOf("create_endpoint") # <<>> => NotFoundReported
    /\ OtherErrorReported =>
         /\ CallsOf("create_endpoint") = <<>>
         /\ CallsOf("update_endpoint") = <<>>
         /\ dpc = "done" => dresponse.statusCode = 500

\* what the handler does instead: after any failed describe it takes the
\* create branch, exactly as after 'not found'
C22_AnyErrorCreates ==
    (describeResult.kind = "Error" /\ PastUpsert) =>
      /\ Len(CallsOf("create_endpoint")) = 1
      /\ CallsOf("create_endpoint")[1].name = NewConfig
      /\ CallsOf("update_endpoint") = <<>>

\* the describe was throttled while the endpoint was InService; the handler
\* issued create_endpoint for the existing endpoint, was refused, and
\* returned 500
C22_Witness ==
    /\ OtherErrorReported /\ dpc = "done"
    /\ Len(CallsOf("create_endpoint")) = 1 /\ ~calls[Len(calls)].ok
    /\ epStatus = "InService" /\ epConfig = Some(OldConfig)

----------------------------------------------------------------------------
(* Properties of artifact validation. *)

\* the artifact can be fetched, is a gzip tar and has at least one member
WellFormedArchive ==
    /\ artifact \in {"valid", "weights_only", "no_model_files"}
    /\ Content(artifact).fetched /\ Content(artifact).gzip
    /\ Len(Content(artifact).members) >= 1

\* step 1 of the deployment handler has run
Validated == calls # <<>> /\ calls[1].op = "download_file"

C30_WitnessUnreadable ==
    /\ Validated /\ artifact = "unreadable" /\ ~calls[1].ok
    /\ dresponse.statusCode = 400


----------------------------------------------------------------------------
(* Properties of the artifact inspector. *)

\* what extract_metrics_from_model_archive makes of the job's archive
Extracted == extract_metrics_from_model_archive(Archive(archive, metrics))
\* the archive is a gzip tar without a metrics.json at its root
LacksMetrics == archive \in {"no_metrics", "nested_metrics"}
\* evaluate_model got hold of the archive
Fetched == epc # "start" /\ ~(report.passed = FALSE /\ "error" \in DOMAIN report
                              /\ report.error = "download failed")

\* C28: on an archive without metrics.json extract_metrics_from_model_archive
\* raises the not-found error and returns no metric set; evaluate_model turns
\* it into a report with passed = false and that error, and the handler
\* neither approves the model nor issues a copy to the approved path.
C28_NoMetricsNoApproval ==
    LacksMetrics =>
      /\ Extracted.raised = Some(MetricsNotFound)
      /\ Extracted.value = None
      /\ Fetched =>
           /\ report.passed = FALSE
           /\ report.error = MetricsNotFound
           /\ copyCalls = <<>>
           /\ Decided => ~decision.approved /\ "approved_path" \notin DOMAIN decision
           /\ (epc = "done" /\ eresponse.statusCode = 200) =>
                /\ eresponse.body.model_approved = FALSE
                /\ eresponse.body.approved_model_path = None

\* a returned evaluation of an archive that holds model files only, against
\* no thresholds (an empty metric set would have passed)
C28_Witness ==
    /\ archive = "no_metrics" /\ thresholds = <<>> /\ Fetched
    /\ epc = "done" /\ eresponse.statusCode = 200

----------------------------------------------------------------------------
(* Properties of event intake. *)

\* the training handler's event lacks the bucket or the key
TrainEventLacks == tpc # "idle" /\ (~tevent.detail \/ tevent.bucket = None \/ tevent.key = None)
\* the evaluator's event lacks the job name, the status, or the artifact URI
\* of a Completed job
EvalEventLacks ==
    /\ epc # "idle"
    /\ \/ ~eevent.detail \/ eevent.job = None \/ eevent.status = None
       \/ eevent.status = Some("Completed") /\ eevent.artifact = None
\* the deployer's event carries no bucket or no key
DeployEventLacks ==
    /\ dpc # "idle"
    /\ \/ event.format = "other"
       \/ event.format = "Records" /\ (~event.hasS3Record \/ ~event.wellFormed)
       \/ event.format = "detail" /\ (event.bucket = None \/ event.key = None)
\* the deployer's event lacks the bucket only, and BUCKET_NAME is configured
BucketDefaulted ==
    /\ dpc # "idle" /\ envBucket
    /\ event.format = "detail" /\ event.bucket = None /\ event.key # None

\* the training handler and the evaluator fail fast on such an event
FailFastTrainEval ==
    /\ TrainEventLacks =>
         /\ tcalls = <<>>
         /\ tpc \in {"receive", "done"}
         /\ tpc = "done" =>
              /\ tresponse.statusCode = 500
              /\ \E k \in {"detail", "bucket", "object"} :
                   tresponse = TrainFailure(MissingS3Key(k))
    /\ EvalEventLacks =>
         /\ fetches = <<>> /\ copyCalls = <<>> /\ enotes = <<>>
         /\ epc \in {"receive", "done"}
         /\ epc = "done" =>
              /\ eresponse.statusCode = 500
              /\ \E k \in {"detail", "TrainingJobName", "TrainingJobStatus",
                           "ModelArtifacts"} :
                   eresponse = EvalFailure(MissingKey(k))
\* the deployer returns an error for the event before any call
FailFastDeploy ==
    /\ calls = <<>>
    /\ dpc \in {"start", "done"}
    /\ dpc = "done" =>
         \/ dresponse = Response(400, "no bucket/key")
         \/ dresponse = Response(500, "unhandled")

\* C26 as stated: every event lacking a required field ends in an error
\* outcome naming the problem, with no job submission, artifact fetch,
\* storage write or control-plane call.
C26_MalformedFailsFast ==
    /\ FailFastTrainEval
    /\ DeployEventLacks => FailFastDeploy

\* C26: an event lacking a required field ends in an error outcome naming the
\* problem with no job submission, fetch, storage write or control-plane
\* call, except that the deployer takes the bucket of an EventBridge event
\* without bucketName from BUCKET_NAME when that is configured and then
\* handles the event as one that carries the bucket.
C26_MalformedUnlessDefaulted ==
    /\ FailFastTrainEval
    /\ (DeployEventLacks /\ ~BucketDefaulted) => FailFastDeploy
    /\ BucketDefaulted =>
         /\ ExtractEvent(event).bucket = Some("bucket")
         /\ dpc = "done" => dresponse # Response(400, "no bucket/key")
         /\ (dpc \notin {"start", "done"} \/ calls # <<>>)
              => StartsWith(event.key[1], ApprovedPrefix)

\* the deployer rejected an event without bucketName, BUCKET_NAME unset
C26_Witness ==
    /\ DeployEventLacks /\ ~envBucket /\ dpc = "done"
    /\ event.format = "detail" /\ event.key = Some(ApprovedKey(JobName, 0))
    /\ dresponse = Response(400, "no bucket/key")
\* the deployer deployed from an event without bucketName
C26_WitnessDefaulted ==
    /\ BucketDefaulted /\ dpc = "done" /\ dresponse = Response(200, "deployed")
\* the evaluator rejected a Completed event without the artifact URI
C26_WitnessEvaluator ==
    /\ EvalEventLacks /\ epc = "done" /\ eevent.job # None
    /\ eresponse = EvalFailure(MissingKey("ModelArtifacts"))
\* the training handler rejected an event without the bucket
C26_WitnessTraining ==
    /\ TrainEventLacks /\ tpc = "done"
    /\ tresponse = TrainFailure(MissingS3Key("bucket"))


----------------------------------------------------------------------------
(* Properties of notification failures. *)

\* what the deployer returns on the path it took, read off the calls it made
\* and the health verdict
PathResponse ==
    IF healthy = Some(TRUE) THEN Response(200, "deployed")
    ELSE IF healthy = Some(FALSE) THEN HealthFailedResponse(previous_config_name)
    ELSE IF Len(calls) = 1 /\ ~_validate_model_artifact(artifact)
         THEN Response(400, "validation failed")
         ELSE Response(500, "unhandled")
\* the calls of a deployment that reached the health check, in order
DeployedCalls ==
    /\ Len(calls) >= 5
    /\ [i \in 1..4 |-> calls[i].op] =
         <<"download_file", "create_model", "create_endpoint_config", "describe_endpoint">>
    /\ calls[5].op \in EndpointOps /\ calls[5].ok
\* the evaluator's copy and decision are those of the report
DecisionStands ==
    /\ Len(copyCalls) = IF report.passed THEN 1 ELSE 0
    /\ decision.approved <=> (report.passed /\ CopySucceeded)

\* C25: after a publish call has failed, the deployer still returns the
\* response of the path it took, keeps every call it made (a successful
\* deployment keeps its model, config and endpoint calls and is not rolled
\* back) and publishes no notification beyond those of the path; the
\* evaluator still returns 200 with the decision taken before the publish,
\* its copy stands, and it publishes nothing further.
C25_PublishFailureContained ==
    /\ (pubFailed /\ dpc = "done") =>
         /\ dresponse = PathResponse
         /\ Len(dnotes) = IF Outcome = "EndpointError" THEN 2 ELSE 1
         /\ healthy # None => DeployedCalls
         /\ healthy = Some(TRUE) =>
              /\ RollbackCalls(previous_config_name) # <<>> =>
                   \A i \in 1..Len(calls) : calls[i] # RollbackCalls(previous_config_name)[1]
              /\ \A i \in 1..Len(calls) :
                   (calls[i].op = "update_endpoint") => calls[i].name = NewConfig
    /\ (pubFailed /\ epc = "done") =>
         /\ Len(enotes) = 1
         /\ eresponse.statusCode = 200
         /\ eevent.status = Some("Completed") =>
              /\ eresponse = EvalResponse(JobName, report, decision)
              /\ DecisionStands
         /\ eevent.status # Some("Completed") =>
              /\ eresponse = SkipResponse(JobName, eevent.status[1])
              /\ copyCalls = <<>> /\ fetches = <<>>

\* a deployment over an existing endpoint that succeeded although the
\* success notification could not be published
C25_Witness ==
    /\ pubFailed /\ dpc = "done" /\ healthy = Some(TRUE)
    /\ previous_config_name = Some(OldConfig) /\ epConfig = Some(NewConfig)
\* an approval whose notification could not be published
C25_WitnessEvaluator ==
    /\ pubFailed /\ epc = "done" /\ decision.approved
    /\ eresponse.body.model_approved
\* a rollback whose notification could not be published
C25_WitnessRolledBack ==
    /\ pubFailed /\ dpc = "done" /\ healthy = Some(FALSE)
    /\ previous_config_name # None /\ epConfig = previous_config_name


----------------------------------------------------------------------------
(* Properties of threshold loading and of resource names. *)

Loaded == fin.fn = "load_evaluation_thresholds" /\ fout # None

\* C27: load_evaluation_thresholds returns the document's entries, in order,
\* minus every entry whose key begins with '_', so that no such key is a
\* check of the evaluation report; when the document cannot be fetched or
\* parsed, or is not an object, it returns exactly the defaults accuracy 0.85,
\* f1_score 0.80, precision 0.75, recall 0.75.
C27_ThresholdLoading ==
    Loaded =>
      LET doc == fin.doc
          got == fout[1].thresholds
          kept == {i \in 1..Len(doc.items) : Head(Spelling(doc.items[i][1])) # "_"}
      IN /\ doc.kind = "object" =>
              /\ Len(got) = Cardinality(kept)
              /\ \A i \in kept : HasKey(got, doc.items[i][1])
                                 /\ Get(got, doc.items[i][1]) = doc.items[i][2]
              /\ \A j \in 1..Len(got) : got[j][1] \notin {"_comment", "_description"}
              /\ \A j1, j2 \in 1..Len(got) :
                   j1 < j2 => \E i1, i2 \in kept :
                                /\ i1 < i2
                                /\ doc.items[i1] = got[j1] /\ doc.items[i2] = got[j2]
         /\ doc.kind # "object" =>
              got = <<<<"accuracy", 85>>, <<"f1_score", 80>>,
                      <<"precision", 75>>, <<"recall", 75>>>>
         /\ Keys(fout[1].report.results) \cap {"_comment", "_description"} = {}
         /\ Keys(fout[1].report.results) = Keys(got)

\* a document with a comment entry between two thresholds
C27_Witness ==
    /\ Loaded /\ fin.doc.kind = "object" /\ Len(fin.doc.items) = 3
    /\ fin.doc.items[2][1] = "_comment"
    /\ Len(fout[1].thresholds) = 2
\* a document that is not JSON
C27_WitnessDefaults == Loaded /\ fin.doc.kind = "not_json"


DeployedTwice == fin.fn = "deploy_twice" /\ fout # None
ApprovedTwice == fin.fn = "approve_twice" /\ fout # None

\* C23 as stated: any two deployment attempts derive different model names
\* and different endpoint-config names, so the second model registration is
\* never refused for its name.
C23_DistinctModelNames ==
    DeployedTwice =>
      /\ fout[1].names[1] # fout[1].names[2]
      /\ fout[1].configs[1] # fout[1].configs[2]
      /\ fout[1].registered[2]

\* what the names do instead: two attempts get one name exactly when they
\* fall in the same second and their keys agree up to '/', '.' and '-'
C23_NamesBySecond ==
    DeployedTwice =>
      /\ fout[1].names[1] = fout[1].names[2]
           <=> /\ fin.t1.sec = fin.t2.sec
               /\ Replace(Replace(fin.key1, "/", "-"), ".", "-")
                    = Replace(Replace(fin.key2, "/", "-"), ".", "-")
      /\ fout[1].registered[2] <=> fout[1].names[1] # fout[1].names[2]
      /\ fout[1].trigger_names[1] = fout[1].trigger_names[2]
           <=> fin.t1.sec = fin.t2.sec

\* two attempts for one key within one second: one name, the second
\* registration refused
C23_Witness ==
    /\ DeployedTwice /\ fin.key1 = fin.key2 /\ fin.t1.sec = fin.t2.sec
    /\ fin.t1.tick < fin.t2.tick
    /\ fout[1].names[1] = fout[1].names[2] /\ ~fout[1].registered[2]
\* two attempts for different keys within one second: one name
C23_WitnessTwoKeys ==
    /\ DeployedTwice /\ fin.key1 # fin.key2 /\ fout[1].names[1] = fout[1].names[2]

\* C24 as stated: any two successful approvals produce different approved
\* paths, so the object written by the first is still there after the second.
C24_DistinctApprovedPaths ==
    ApprovedTwice =>
      /\ fout[1].paths[1] # fout[1].paths[2]
      /\ fout[1].bucket[fout[1].paths[1]] = 1

\* what the paths do instead: two approvals share a path exactly when they
\* are of one job within one second, and then the second copy replaces the
\* object of the first
C24_PathsBySecond ==
    ApprovedTwice =>
      /\ fout[1].paths[1] = fout[1].paths[2]
           <=> (fin.job1 = fin.job2 /\ fin.t1.sec = fin.t2.sec)
      /\ fout[1].bucket[fout[1].paths[1]] = 2
           <=> (fin.job1 = fin.job2 /\ fin.t1.sec = fin.t2.sec)

\* two approvals of one job within one second: the bucket holds one object,
\* written by the second
C24_Witness ==
    /\ ApprovedTwice /\ fin.job1 = fin.job2 /\ fin.t1.sec = fin.t2.sec
    /\ fin.t1.tick < fin.t2.tick
    /\ DOMAIN fout[1].bucket = {fout[1].paths[1]}
    /\ fout[1].bucket[fout[1].paths[1]] = 2


----------------------------------------------------------------------------
(* Properties of concurrent reconciler invocations. *)

InTransition == {"Creating", "Updating"}

\* C21 as stated: no invocation issues create_endpoint or update_endpoint
\* while the endpoint's status in the control plane is Creating or Updating.
C21_NeverRaced ==
    \A n \in 1..Len(rcalls) : rcalls[n].met \notin InTransition

\* what the handlers do instead: trigger-new-file issues nothing after a
\* describe that returned Creating or Updating, and a call that meets an
\* endpoint in transition is refused by the control plane
C21_RacedCallsRefused ==
    /\ \A n \in 1..Len(rcalls) : rcalls[n].met \in InTransition => ~rcalls[n].ok
    /\ rkind = "trigger-new-file" =>
         \A i \in Invocations :
           rseen[i] \in InTransition =>
             \A n \in 1..Len(rcalls) : rcalls[n].by # i

\* trigger-new-file: both invocations described the endpoint InService, the
\* first update was accepted and the second met the endpoint Updating
C21_Witness ==
    /\ rkind = "trigger-new-file"
    /\ rseen = [i \in Invocations |-> "InService"]
    /\ Len(rcalls) >= 2
    /\ rcalls[1].ok /\ rcalls[1].op = "update_endpoint"
    /\ rcalls[2].by # rcalls[1].by
    /\ rcalls[2].op = "update_endpoint" /\ rcalls[2].met = "Updating"
\* deployment_orchestrator: an invocation described the endpoint Updating and
\* issued update_endpoint all the same
C21_WitnessOrchestrator ==
    /\ rkind = "deployment_orchestrator"
    /\ \E n \in 1..Len(rcalls) :
         /\ rseen[rcalls[n].by] = "Updating" /\ rcalls[n].met = "Updating"
         /\ rcalls[n].op = "update_endpoint"


----------------------------------------------------------------------------
(* Properties of the evaluator's status branch. *)

\* the evaluator was invoked for a job whose status is not Completed
NotCompleted ==
    /\ epc # "idle"
    /\ eevent.detail /\ eevent.job # None /\ eevent.status # None
    /\ eevent.status[1] # "Completed"
\* nothing was fetched, evaluated or copied
NothingEvaluated ==
    /\ fetches = <<>> /\ report = NoReport /\ decision = NoDecision
    /\ copyCalls = <<>>

\* C40 as stated: for a status other than Completed nothing is fetched,
\* evaluated or copied, the handler returns 200, and the training-failure
\* notification is published iff the status is Failed or Stopped.
C40_SkipNotifiesIffFailed ==
    NotCompleted =>
      /\ NothingEvaluated
      /\ epc \in {"receive", "done"}
      /\ epc = "done" =>
           /\ eresponse.statusCode = 200
           /\ enotes # <<>> <=> eevent.status[1] \in {"Failed", "Stopped"}

\* C40: for a status other than Completed nothing is fetched, evaluated or
\* copied and the handler returns 200 naming the job and the status; the
\* training-failure notification is published, once, iff the status is
\* Failed or Stopped and SNS_TOPIC_ARN is configured.
C40_SkipNotifiesIfConfigured ==
    NotCompleted =>
      /\ NothingEvaluated
      /\ epc \in {"receive", "done"}
      /\ epc = "receive" => enotes = <<>>
      /\ epc = "done" =>
           /\ eresponse = SkipResponse(eevent.job[1], eevent.status[1])
           /\ eresponse.statusCode = 200
           /\ enotes = IF snsTopic /\ eevent.status[1] \in {"Failed", "Stopped"}
                       THEN <<"MLOps Pipeline - Training FAILED">> ELSE <<>>

\* a Stopped job reported with the topic configured
C40_Witness ==
    /\ NotCompleted /\ epc = "done" /\ eevent.status = Some("Stopped")
    /\ snsTopic /\ Len(enotes) = 1
\* a Failed job with no topic configured: nothing published
C40_WitnessNoTopic ==
    /\ NotCompleted /\ epc = "done" /\ eevent.status = Some("Failed")
    /\ ~snsTopic /\ enotes = <<>>
\* a job still in progress
C40_WitnessInProgress ==
    /\ NotCompleted /\ epc = "done" /\ eevent.status = Some("InProgress")
    /\ snsTopic /\ enotes = <<>>


----------------------------------------------------------------------------
(* Properties of termination and of the health verdict. *)

\* a step of the deployment handler itself
HandlerStep ==
    \/ D_Receive \/ D_Validate \/ D_CreateModel \/ D_CreateConfig
    \/ D_Describe \/ D_Upsert \/ D_Poll \/ D_Rollback \/ D_HealthFailed
    \/ D_Succeed

\* the steps the handler has left at most: its position, and while polling
\* the time left until the wait gives up
WaitBudget == MaxWaitTime + PollInterval + MaxJitter
Position ==
    CASE dpc = "start" -> 9 [] dpc = "validate" -> 8 [] dpc = "create_model" -> 7
      [] dpc = "create_config" -> 6 [] dpc = "describe" -> 5 [] dpc = "upsert" -> 4
      [] dpc = "health" -> 3 [] dpc = "checked" -> 2 [] dpc = "rolled" -> 1
      [] OTHER -> 0
Remaining ==
    Position * (WaitBudget + 1)
    + IF dpc = "health" THEN WaitBudget - (clock - start_time) ELSE 0

\* C37: an invocation of the deployment handler that has not returned can
\* always take its next step, every step brings it closer to returning (a
\* poll of the health check uses up part of a bounded wait, whatever status
\* it sees), so the handler returns; what it returns is a response with
\* statusCode 200, 400 or 500, an exception being turned into a 500 response.
C37_Terminates ==
    /\ [](dpc \notin {"idle", "done"} => ENABLED HandlerStep)
    /\ [](dpc = "health" => clock - start_time <= WaitBudget)
    /\ [][HandlerStep => (Remaining' < Remaining /\ Remaining' >= 0)]_vars
    /\ [](dpc = "done" => (Remaining = 0 /\ dresponse.statusCode \in {200, 400, 500}))

\* an invocation that returned after polling an endpoint that stayed
\* Updating until the wait timed out
C37_Witness ==
    /\ dpc = "done" /\ healthy = Some(FALSE)
    /\ Len(polls) >= 2
    /\ \A n \in 1..Len(polls) : polls[n].saw = "Updating"
    /\ dresponse.statusCode = 500


\* the invocation issued its create/update and the control plane took it
UpsertAccepted ==
    \E n \in 1..Len(calls) : calls[n].op \in EndpointOps /\ calls[n].ok
\* the invocation returned the success response or published the success
\* notification
ReportedSuccess ==
    \/ dpc = "done" /\ dresponse = Response(200, "deployed")
    \/ \E n \in 1..Len(dnotes) : dnotes[n] = "Model Deployment Successful"

\* C38: the success response and the success notification occur only after
\* the invocation's create/update was accepted and the last poll of the
\* health check, made after it, observed InService; a poll that finds no
\* endpoint or whose describe fails ends the check with the verdict False
\* (nothing is raised), and the invocation then returns the health-failure
\* response.
C38_SuccessOnlyIfInService ==
    /\ ReportedSuccess =>
         /\ UpsertAccepted
         /\ polls # <<>> /\ LastPoll.saw = "InService"
         /\ LastPoll.at >= start_time
         /\ healthy = Some(TRUE)
         /\ calls[Len(calls)].op = "describe_endpoint" /\ calls[Len(calls)].ok
    /\ (polls # <<>> /\ LastPoll.saw = "Error") =>
         /\ dpc \in {"checked", "rolled", "done"}
         /\ healthy = Some(FALSE)
         /\ ~ReportedSuccess
         /\ dpc = "done" => dresponse = HealthFailedResponse(previous_config_name)
    /\ (dpc = "done" /\ healthy # Some(TRUE)) => dresponse.statusCode # 200 \/ ~UpsertAccepted

\* a new endpoint that was seen Creating and then InService
C38_Witness ==
    /\ dpc = "done" /\ dresponse = Response(200, "deployed")
    /\ Len(polls) = 2 /\ polls[1].saw = "Creating" /\ polls[2].saw = "InService"
    /\ CallsOf("create_endpoint") # <<>>
\* a poll whose describe failed, after which the handler returned the
\* health-failure response
C38_WitnessPollError ==
    /\ dpc = "done" /\ polls # <<>> /\ LastPoll.saw = "Error"
    /\ dresponse = HealthFailedResponse(previous_config_name)


----------------------------------------------------------------------------
(* Properties of the approved path. *)

\* the S3 event the deployer receives for an object written at key
UploadEvent(bucket, key) ==
    [format |-> "Records", hasS3Record |-> TRUE, wellFormed |-> TRUE,
     bucket |-> bucket, key |-> key]
\* the deployer's approved-prefix check lets the event through
PassesPrefixCheck(ev) ==
    /\ ExtractEvent(ev).raised = None
    /\ ExtractEvent(ev).bucket # None /\ ExtractEvent(ev).key # None
    /\ StartsWith(ExtractEvent(ev).key[1], ApprovedPrefix)

\* C39: every copy the approval issues writes, in the bucket of the source
\* artifact, a key models/approved/<job>-<timestamp>/model.tar.gz, which the
\* deployer's approved-prefix check lets through, and the approved path
\* returned is that object's URI; a copy is issued only for a report that
\* passed, so nothing is written under models/approved/ for a failed one.
C39_ApprovedPathForm ==
    /\ \A n \in 1..Len(copyCalls) :
         LET req == copyCalls[n].request IN
         /\ report.passed
         /\ req.Bucket = UrlParse(ModelS3Path).netloc
         /\ req.CopySource = [Bucket |-> UrlParse(ModelS3Path).netloc,
                              Key |-> LStripSlash(UrlParse(ModelS3Path).path)]
         /\ \E ts \in Stamps :
              req.Key = <<"models", "/", "approved", "/", JobName, "-", ToString(ts),
                          "/", "model", ".", "tar", ".", "gz">>
         /\ PassesPrefixCheck(UploadEvent(req.Bucket, req.Key))
    /\ (Decided /\ decision.approved) =>
         /\ Len(copyCalls) = 1 /\ copyCalls[1].outcome = "ok"
         /\ decision.approved_path =
              <<"s3://", copyCalls[1].request.Bucket, "/">> \o copyCalls[1].request.Key
    /\ (Decided /\ ~report.passed) => copyCalls = <<>> /\ ~decision.approved

\* an approval that wrote the approved object
C39_Witness ==
    /\ epc = "done" /\ decision.approved /\ Len(copyCalls) = 1
    /\ thresholds # <<>>
\* a failed evaluation: nothing written
C39_WitnessRejected ==
    /\ epc = "done" /\ ~report.passed /\ "results" \in DOMAIN report
    /\ report.results # <<>> /\ copyCalls = <<>>

----------------------------------------------------------------------------
(* C34: one evaluation notification per Completed job, in both handlers *)

\* the evaluator has returned from the path of a Completed job
EvaluatorReturned == epc = "done" /\ report # NoReport /\ eresponse.statusCode = 200
\* the training handler has returned from the path of a Completed job
TrainerReturned == tpc = "done" /\ treport # NoReport /\ tresponse.statusCode = 200

\* the report has an entry of a missing metric
HasMissing(evaluation_result) ==
    \E i \in 1..Len(evaluation_result.results) :
      evaluation_result.results[i][2].status = "missing"

\* C34: in both handlers, with a notification topic configured, every
\* Completed job that was evaluated, whatever the evaluation outcome, has
\* exactly one evaluation notification published
C34_OneNotificationPerJob ==
    /\ (EvaluatorReturned /\ snsTopic) => Len(enotes) = 1
    /\ (TrainerReturned /\ snsTopic) => Len(tnotes) = 1

\* what the two handlers do: the evaluator publishes once for every report;
\* the training handler publishes once unless the artifact could not be read
\* or a metric is missing, and then publishes nothing
C34_TrainerSilentOnErrors ==
    /\ (EvaluatorReturned /\ snsTopic) => Len(enotes) = 1
    /\ (TrainerReturned /\ snsTopic) =>
         Len(tnotes) = (IF "error" \in DOMAIN treport \/ HasMissing(treport)
                        THEN 0 ELSE 1)

\* a Completed job whose archive lacks a thresholded metric: the training
\* handler returned 200 with a topic configured and published nothing
C34_Witness ==
    /\ TrainerReturned /\ snsTopic
    /\ tstatus[Len(tstatus)] = "Completed"
    /\ HasMissing(treport)
    /\ tnotes = <<>>

\* the artifact could not be read: no notification either
C34_WitnessUnreadable ==
    /\ TrainerReturned /\ snsTopic
    /\ "error" \in DOMAIN treport
    /\ tnotes = <<>>

\* the evaluator publishes for the same two outcomes
C34_WitnessEvaluator ==
    /\ EvaluatorReturned /\ snsTopic
    /\ "error" \in DOMAIN report \/ HasMissing(report)
    /\ Len(enotes) = 1

----------------------------------------------------------------------------
(* C35: the copies of the threshold evaluator and of the approval agree *)

ReportsCompared == fout # None /\ fin.fn = "evaluators"
ApprovalsCompared == fout # None /\ fin.fn = "approvals"

\* C35: for every pair of metrics and thresholds evaluate_metrics (ops),
\* perform_evaluation (evaluator) and perform_evaluation (training handler)
\* yield the same report, with the same passed, results and summary; and for
\* every report the two handle_model_approval return the same decision and
\* issue the same copy calls
C35_CopiesAgree ==
    /\ ReportsCompared =>
         /\ fout[1].ops[2] = fout[1].evaluator
         /\ fout[1].trainer = fout[1].evaluator
         /\ fout[1].ops[1] = fout[1].evaluator.passed
         /\ DOMAIN fout[1].ops[2] = {"passed", "results", "summary"}
    /\ ApprovalsCompared =>
         /\ fout[1].trainer.decision = fout[1].evaluator.decision
         /\ fout[1].trainer.calls = fout[1].evaluator.calls
         /\ fout[1].trainer.raised = fout[1].evaluator.raised

\* a report with a passing, a failing and a missing entry, from all three
C35_Witness ==
    /\ ReportsCompared
    /\ Len(fout[1].ops[2].results) = 3
    /\ \A st \in {"pass", "fail", "missing"} :
         \E i \in 1..3 : fout[1].trainer.results[i][2].status = st
    /\ fout[1].evaluator.summary.passed_checks = 1

\* no thresholds at all: the pass rate is 0 in all three
C35_WitnessNoChecks ==
    /\ ReportsCompared /\ fin.thresholds = <<>>
    /\ fout[1].ops[2].summary.pass_rate = Zero

\* an approval whose copy failed, from both
C35_WitnessCopyFailed ==
    /\ ApprovalsCompared /\ fout[1].report.passed
    /\ Len(fout[1].trainer.calls) = 1
    /\ ~fout[1].trainer.decision.approved

\* a rejection listing two failed metrics, from both
C35_WitnessRejected ==
    /\ ApprovalsCompared /\ ~fout[1].report.passed
    /\ Len(fout[1].trainer.decision.failed_metrics) = 2
    /\ fout[1].evaluator.calls = <<>>

\* the training handler's error report, approved by neither
C35_WitnessErrorReport ==
    /\ ApprovalsCompared /\ "summary" \notin DOMAIN fout[1].report
    /\ ~fout[1].evaluator.decision.approved

----------------------------------------------------------------------------
(* Properties of trigger-new-file: endpoint step and garbage collection. *)

\* the calls of invocation i with the given operation, in order
IssuedBy(i, op) == SelectSeq(glog[i], LAMBDA c : c.op = op)
EndpointCalls(i) ==
    SelectSeq(glog[i], LAMBDA c : c.op \in {"create_endpoint", "update_endpoint"})
\* invocation i is past step 4
PastEndpointStep(i) ==
    gpc[i] \in {"list_configs", "delete_configs", "list_models", "delete_models",
                "done", "raised"} /\ gseen[i].kind # "none"
\* invocation i has begun its garbage collection
Collecting(i) ==
    \E k \in 1..Len(glog[i]) :
      glog[i][k].op \in {"list_endpoint_configs", "list_models",
                         "delete_endpoint_config", "delete_model"}
OwnConfig(i) == TriggerConfigName(gstamp[i][1])
OwnModel(i) == TriggerModelName(gstamp[i][1])

\* C33: InService or Failed leads to exactly one update_endpoint with the new
\* config; Creating or Updating to neither create nor update; a describe
\* error ValidationException or ResourceNotFound to exactly one
\* create_endpoint; any other describe error is re-raised with no create or
\* update issued
C33_EndpointStep ==
    \A i \in Invs : PastEndpointStep(i) =>
      LET seen == gseen[i]
          updates == IssuedBy(i, "update_endpoint")
          creates == IssuedBy(i, "create_endpoint")
      IN /\ (seen.kind = "status" /\ seen.value \in {"InService", "Failed"}) =>
              (Len(updates) = 1 /\ updates[1].name = OwnConfig(i))
         /\ (seen.kind = "status" /\ seen.value \in {"Creating", "Updating"}) =>
              (updates = <<>> /\ creates = <<>> /\ gpc[i] # "raised")
         /\ (seen.kind = "client_error"
             /\ seen.value \in {"ValidationException", "ResourceNotFound"}) =>
              (Len(creates) = 1 /\ creates[1].name = OwnConfig(i) /\ updates = <<>>)
         /\ (seen.kind = "exception"
             \/ (seen.kind = "client_error"
                 /\ seen.value \notin {"ValidationException", "ResourceNotFound"})) =>
              (gpc[i] = "raised" /\ updates = <<>> /\ creates = <<>>)

\* an endpoint in service was updated to the new config
C33_Witness ==
    \E i \in Invs :
      /\ PastEndpointStep(i) /\ gseen[i] = [kind |-> "status", value |-> "InService"]
      /\ EndpointCalls(i) = <<[op |-> "update_endpoint", name |-> OwnConfig(i),
                               outcome |-> "ok", existed |-> TRUE]>>
\* an endpoint in transition was left alone, and the handler went on
C33_WitnessInTransition ==
    \E i \in Invs :
      /\ gpc[i] = "done" /\ gseen[i] = [kind |-> "status", value |-> "Updating"]
      /\ EndpointCalls(i) = <<>>
\* no endpoint: one create
C33_WitnessCreate ==
    \E i \in Invs :
      /\ PastEndpointStep(i) /\ gseen[i].value = "ResourceNotFound"
      /\ Len(EndpointCalls(i)) = 1 /\ EndpointCalls(i)[1].op = "create_endpoint"
      /\ EndpointCalls(i)[1].outcome = "ok"
\* throttled describe: re-raised
C33_WitnessRaised ==
    \E i \in Invs :
      /\ gseen[i].value = "ThrottlingException" /\ gpc[i] = "raised"
\* a failed endpoint whose update was refused: one update, followed by the
\* create_endpoint of the except branch
C33_WitnessRefusedUpdate ==
    \E i \in Invs :
      /\ gseen[i] = [kind |-> "status", value |-> "Failed"] /\ gpc[i] = "raised"
      /\ Len(EndpointCalls(i)) = 2
      /\ EndpointCalls(i)[1].outcome = "refused"

\* the names an ok listing of invocation i returned, less the one to keep
Listed(i, listOp, keep) ==
    LET lists == SelectSeq(glog[i], LAMBDA c : c.op = listOp /\ c.outcome = "ok")
    IN IF lists = <<>> THEN <<>>
       ELSE SelectSeq(lists[1].name, LAMBDA n : n # keep)
\* the loop of invocation i over that listing has ended
LoopEnded(i, listOp) ==
    IF listOp = "list_endpoint_configs"
    THEN gpc[i] \in {"list_models", "delete_models", "done"}
    ELSE gpc[i] = "done"
IsPrefix(s, t) == Len(s) <= Len(t) /\ s = SubSeq(t, 1, Len(s))
Names(entries) == [k \in 1..Len(entries) |-> entries[k].name]

\* every listed name was attempted
AllAttempted(i, listOp, delOp, keep) ==
    LoopEnded(i, listOp) => Names(IssuedBy(i, delOp)) = Listed(i, listOp, keep)
\* the listed names were attempted in order, up to the first deletion that
\* raised an exception other than a ClientError, if there is one
AttemptedUnlessException(i, listOp, delOp, keep) ==
    LET dels == IssuedBy(i, delOp) IN
    /\ IsPrefix(Names(dels), Listed(i, listOp, keep))
    /\ \A k \in 1..Len(dels) - 1 : dels[k].outcome # "exception"
    /\ LoopEnded(i, listOp) =>
         \/ Names(dels) = Listed(i, listOp, keep)
         \/ (dels # <<>> /\ dels[Len(dels)].outcome = "exception")

\* the handler's outcome stands: nothing raises once collection has begun,
\* and a handler that went through it returns 200
OutcomeStands(i) ==
    /\ Collecting(i) => gpc[i] # "raised"
    /\ gpc[i] = "done" =>
         (gresponse[i].statusCode = 200 /\ gresponse[i].body.config = OwnConfig(i))

\* C31 as stated: no deletion error of any kind aborts the cleanup of the
\* remaining resources or changes the handler's outcome
C31_NoDeletionErrorAborts ==
    \A i \in Invs : gstamp[i] # None =>
      /\ AllAttempted(i, "list_endpoint_configs", "delete_endpoint_config", OwnConfig(i))
      /\ AllAttempted(i, "list_models", "delete_model", OwnModel(i))
      /\ OutcomeStands(i)

\* C31: a deletion refused with a ClientError ('in use' or other) never
\* aborts the cleanup of the remaining resources; a deletion that raises any
\* other exception ends that loop only (the other loop still runs); and no
\* deletion changes the handler's outcome, which is 200 once step 4 is past
C31_ClientErrorsNeverAbort ==
    \A i \in Invs : gstamp[i] # None =>
      /\ AttemptedUnlessException(i, "list_endpoint_configs",
                                  "delete_endpoint_config", OwnConfig(i))
      /\ AttemptedUnlessException(i, "list_models", "delete_model", OwnModel(i))
      /\ OutcomeStands(i)
      /\ gpc[i] = "done" => IssuedBy(i, "list_models") # <<>>

\* a refused deletion followed by the deletion of the next listed config,
\* in a handler that returned 200
C31_Witness ==
    \E i \in Invs :
      /\ gpc[i] = "done" /\ gresponse[i].statusCode = 200
      /\ LET dels == IssuedBy(i, "delete_endpoint_config") IN
         /\ Len(dels) = 2
         /\ dels[1].outcome \in {"client_error", "in_use"}
         /\ dels[2].outcome = "done"
\* a deletion that raised another exception: the rest of the configs was
\* left, the models were still collected
C31_WitnessAborted ==
    \E i \in Invs :
      /\ gpc[i] = "done" /\ gresponse[i].statusCode = 200
      /\ LET dels == IssuedBy(i, "delete_endpoint_config") IN
         /\ Len(dels) = 1 /\ dels[1].outcome = "exception"
         /\ Len(Listed(i, "list_endpoint_configs", OwnConfig(i))) = 2
      /\ IssuedBy(i, "delete_model") # <<>>

\* C32 as stated: collection runs only after an endpoint create or update
\* was issued for the new config, never deletes the config or model of the
\* current invocation, and attempts every other listed config and model
C32_CollectsAfterDeployment ==
    \A i \in Invs : gstamp[i] # None =>
      /\ Collecting(i) =>
           \E k \in 1..Len(EndpointCalls(i)) :
             /\ EndpointCalls(i)[k].name = OwnConfig(i)
             /\ EndpointCalls(i)[k].outcome = "ok"
      /\ \A k \in 1..Len(glog[i]) :
           glog[i][k].op \in {"delete_endpoint_config", "delete_model"} =>
             glog[i][k].name \notin {OwnConfig(i), OwnModel(i)}
      /\ AllAttempted(i, "list_endpoint_configs", "delete_endpoint_config", OwnConfig(i))
      /\ AllAttempted(i, "list_models", "delete_model", OwnModel(i))

\* what the handler does: collection runs whenever step 4 did not raise,
\* with or without a create or update; it never deletes its own config or
\* model, and deletes only names that contain the base name
C32_CollectsAfterStep4 ==
    \A i \in Invs : gstamp[i] # None =>
      /\ Collecting(i) => (PastEndpointStep(i) /\ gpc[i] # "raised")
      /\ (gpc[i] = "done" /\ EndpointAction(gseen[i]) = "none") =>
           (EndpointCalls(i) = <<>> /\ Collecting(i))
      /\ \A k \in 1..Len(glog[i]) :
           /\ glog[i][k].op = "delete_endpoint_config" =>
                (glog[i][k].name # OwnConfig(i)
                 /\ NameContains(glog[i][k].name, BASE_NAME_CONFIG))
           /\ glog[i][k].op = "delete_model" =>
                (glog[i][k].name # OwnModel(i)
                 /\ NameContains(glog[i][k].name, BASE_NAME_MODEL))

\* the endpoint was Updating: nothing was issued for the new config, and the
\* stale model's deletion was attempted all the same
C32_Witness ==
    \E i \in Invs :
      /\ gpc[i] = "done" /\ gseen[i] = [kind |-> "status", value |-> "Updating"]
      /\ EndpointCalls(i) = <<>>
      /\ \E k \in 1..Len(glog[i]) :
           glog[i][k].op = "delete_model" /\ glog[i][k].name = StaleModel

\* C36 as stated: no config or model of an invocation is deleted before the
\* invocation has issued its endpoint create or update, and no create or
\* update names a config that is no longer there
C36_NoPrematureDeletion ==
    \A i \in Invs :
      /\ gpc[i] \in {"describe", "act"} =>
           (OwnConfig(i) \in gconfigs /\ OwnModel(i) \in gmodels)
      /\ \A k \in 1..Len(EndpointCalls(i)) : EndpointCalls(i)[k].existed

\* what holds: a config is deleted only by an invocation other than the one
\* that created it, and an update that names a deleted config is refused
C36_DeletedByTheOther ==
    \A i \in Invs :
      /\ \A k \in 1..Len(EndpointCalls(i)) :
           ~EndpointCalls(i)[k].existed =>
             /\ EndpointCalls(i)[k].outcome # "ok"
             /\ \E j \in Invs \ {i} : \E d \in 1..Len(glog[j]) :
                  glog[j][d] = [op |-> "delete_endpoint_config",
                                name |-> OwnConfig(i), outcome |-> "done"]

\* invocation i created its config, another invocation's collection deleted
\* it, and i then issued update_endpoint naming it
C36_Witness ==
    \E i \in Invs, j \in Invs :
      /\ i # j
      /\ \E k \in 1..Len(glog[i]) :
           /\ glog[i][k].op = "update_endpoint"
           /\ glog[i][k].name = OwnConfig(i)
           /\ ~glog[i][k].existed
      /\ \E d \in 1..Len(glog[j]) :
           glog[j][d] = [op |-> "delete_endpoint_config",
                         name |-> OwnConfig(i), outcome |-> "done"]
      /\ gpc[i] = "raised" /\ gpc[j] = "done"

====
